---- MODULE Spec2Model ----
(***************************************************************************)
(* Verification model of libanemo: the MMIO dispatcher with its agents and *)
(* frontends (libvio), the differential tester (libcpu/difftest.hh), the   *)
(* staged RISC-V system CPU (libcpu/riscv_cpu_system.hh with               *)
(* riscv/user_core.hh and riscv/privilege_module.hh) and the function      *)
(* pointer CPU (libcpu/riscv_cpu/*.hh with rv32i_cpu_system.cc).           *)
(*                                                                         *)
(* TLC integers are 32-bit signed, so device addresses are taken modulo    *)
(* 2^12 and the WORD_T template parameter is instantiated at XLEN bits.    *)
(***************************************************************************)
EXTENDS Integers, Sequences, FiniteSets, TLC

VARIABLES
    \* ---- libvio: io_dispatcher, mmio_agent, io_frontend ----
    read_request_buffer,  \* io_dispatcher::read_request_buffer (ringbuffer)
    fe,                   \* io_frontend::read_offset / read_data of the console
    read_count,           \* mmio_agent::read_count, per agent
    old_read_count,       \* mmio_agent::old_read_count, per agent
    served,               \* history: per req_no, the first request that took it
    lastRead,             \* history: the outcome of the latest mmio_agent::read
    beCalls,              \* history: backend invocations made for each req_no
    feCalls,              \* history: frontend invocations made for each req_no
    write_request_buffer, \* io_dispatcher::write_request_buffer (ringbuffer)
    fe_write,             \* io_frontend::write_offset / write_data / write_result
    write_count,          \* mmio_agent::write_count, per agent
    old_write_count,      \* mmio_agent::old_write_count, per agent
    wserved,              \* history: per write req_no, the first request with it
    lastWrite,            \* history: the outcome of the latest mmio_agent::write
    feWrites,             \* history: frontend writes made for each write req_no
    in_cycle,             \* history: per agent, the requests of this cycle
    repeated,             \* history: whether the latest call repeated one
    \* ---- libcpu/difftest.hh: simple_difftest with its DUT and REF ----
    dut_event_buffer,     \* dut->event_buffer (ringbuffer of event_t)
    ref_event_buffer,     \* ref->event_buffer
    has_buffer,           \* whether dut / ref were given an event buffer
    dut_buffer_index,     \* simple_difftest::dut_buffer_index
    ref_buffer_index,     \* simple_difftest::ref_buffer_index
    difftest_error,       \* simple_difftest::difftest_error
    child_stopped,        \* dut->stopped() and ref->stopped()
    dut_events,           \* next_cycle's local vector dut_events
    ref_events,           \* next_cycle's local vector ref_events
    diff_pc,              \* position of simple_difftest::next_cycle
    cycleDiffered,        \* history: some finished cycle had differing vectors
    difftest_event_buffer, \* the tester's own event_buffer (abstract_cpu.hh 32)
    child_pc,             \* dut->get_pc() and ref->get_pc()
    child_trap,           \* dut->get_trap() and ref->get_trap()
    offending,            \* history: the first differing event of the latest cycle
    stepping,             \* history: how the latest cycle stepped DUT and REF
    \* ---- libcpu: the CPU under study ----
    cpu_kind,             \* which class the CPU object is, "none" without one
    gpr,                  \* riscv_cpu_system::user_core.gpr
    privilege_module,     \* riscv_cpu_system::privilege_module
    exec_result,          \* riscv_cpu_system::exec_result
    is_stopped,           \* riscv_cpu_system::is_stopped
    last_trap,            \* riscv_cpu_system::last_trap
    rv32,                 \* the fields of an rv32i_cpu_system object
    steps,                \* how many calls the CPU has served
    call,                 \* history: what the latest call did and logged
    taken,                \* history: the exception the latest call delivered
    \* ---- libvio/ringbuffer.hh: ring buffer objects used on their own ----
    ring,                 \* the fields of each ringbuffer object
    ring_alive,           \* which of the objects have been constructed
    ring_crashed,         \* the process died in a division by zero
    ring_pushed,          \* history: the elements pushed to a fresh object
    ring_last,            \* history: the latest operation and the state before it
    \* ---- libcpu/memory.hh: a contiguous_memory object used on its own ----
    memory,               \* base, size and the bytes of mem
    mem_build,            \* what an oversized shift gives in set and in peek
    mem_set,              \* history: the latest call of set / write
    mem_last,             \* history: the latest call and what it returned
    mem_ops               \* how many calls the memory has served

readSide == << read_request_buffer, read_count, served, lastRead, beCalls,
              feCalls >>

writeSide == << write_request_buffer, write_count, wserved, lastWrite,
               feWrites >>

ioVars == << readSide, writeSide, fe, fe_write, old_read_count,
             old_write_count, in_cycle, repeated >>

diffVars == << dut_event_buffer, ref_event_buffer, has_buffer,
               dut_buffer_index, ref_buffer_index, difftest_error,
               child_stopped, dut_events, ref_events, diff_pc, cycleDiffered,
               difftest_event_buffer, child_pc, child_trap, offending,
               stepping >>

cpuVars == << cpu_kind, gpr, privilege_module, exec_result, is_stopped,
              last_trap, rv32, steps, call, taken >>

ringVars == << ring, ring_alive, ring_crashed, ring_pushed, ring_last >>

memVars == << memory, mem_build, mem_set, mem_last, mem_ops >>

vars == << ioVars, diffVars, cpuVars, ringVars, memVars >>

(***************************************************************************)
(* Bounds                                                                  *)
(***************************************************************************)
\* capacity of the dispatcher's request rings (constructor argument)
BufferSize == 1
\* number of agents created with io_dispatcher::new_agent
NumAgents == 2
\* how many requests beyond the ring capacity an agent may issue
ExtraReq == 1

\* capacity of each CPU's event ring
EvBufSize == 3
\* how many events beyond the ring capacity a CPU may log
ExtraEvents == 1

\* how many calls (next_instruction, reset) a CPU serves
MaxSteps == 2

\* the largest last_index a ring buffer used on its own is pushed to
MaxPush == 4

\* the size in bytes of a contiguous_memory used on its own
MemSize == 8
\* the calls made on such a memory
MaxMemOps == 3

\* the steps of REF followed in one cycle of the tester
MaxRefSteps == 3

MaxReq == BufferSize + ExtraReq
MaxEvents == EvBufSize + ExtraEvents
Agents == 1..NumAgents

(***************************************************************************)
(* std::optional<uint64_t>                                                 *)
(***************************************************************************)
None == [has |-> FALSE, val |-> 0]
Some(v) == [has |-> TRUE, val |-> v]

(***************************************************************************)
(* libvio/width.hh                                                         *)
(***************************************************************************)
width_byte == 1
width_half == 2
width_word == 4
width_dword == 8

\* values in the model stay below 2^31, so truncation to 4 or 8 bytes
\* leaves them unchanged
zero_truncate(value, width) ==
    IF width = width_byte THEN value % 256
    ELSE IF width = width_half THEN value % 65536
    ELSE value

(***************************************************************************)
(* libvio/ringbuffer.hh : a ring is [buffer, max_size, first_index,        *)
(* last_index]; buffer is indexed 0..max_size-1                            *)
(***************************************************************************)
RingNew(n, dflt) ==
    [buffer |-> [i \in 0..(n - 1) |-> dflt], max_size |-> n,
     first_index |-> 0, last_index |-> 0]

RingAt(rb, index) == rb.buffer[index % rb.max_size]

\* a push_back that never drops the oldest element
RingPushBack_grows(rb, value) ==
    [rb EXCEPT !.buffer[rb.last_index % rb.max_size] = value,
               !.last_index = rb.last_index + 1]

\* a push_back that stores into the slot of the oldest element
RingPushBack_front(rb, value) ==
    LET last == rb.last_index + 1
    IN [rb EXCEPT !.buffer[rb.first_index % rb.max_size] = value,
                  !.last_index = last,
                  !.first_index = IF (last - rb.first_index) > rb.max_size
                                  THEN last - rb.max_size
                                  ELSE rb.first_index]

\* push_back, lines 119-124
RingPushBack(rb, value) ==
    LET last == rb.last_index + 1
    IN [rb EXCEPT !.buffer[rb.last_index % rb.max_size] = value,
                  !.last_index = last,
                  !.first_index = IF (last - rb.first_index) > rb.max_size
                                  THEN last - rb.max_size
                                  ELSE rb.first_index]

\* a pop_back that does not look whether the ring is empty
RingPopBack_unguarded(rb) == [rb EXCEPT !.last_index = rb.last_index - 1]

\* pop_back, lines 131-133
RingPopBack(rb) ==
    [rb EXCEPT !.last_index = IF rb.last_index > rb.first_index
                              THEN rb.last_index - 1
                              ELSE rb.first_index]

\* push_back on a ring without slots (max_size = 0) when the division by
\* zero of line 120 does not trap: no slot of the ring is written, lines
\* 121-123 run
RingPushBackNoSlot(rb) ==
    LET last == rb.last_index + 1
    IN [rb EXCEPT !.last_index = last,
                  !.first_index = IF (last - rb.first_index) > rb.max_size
                                  THEN last - rb.max_size
                                  ELSE rb.first_index]

\* copy constructor, lines 59-65, and the taken branch of the copy
\* assignment, lines 80-85: a new array with the slots of the other copied
RingCopy(other) ==
    [buffer |-> [i \in 0..(other.max_size - 1) |-> other.buffer[i]],
     max_size |-> other.max_size,
     first_index |-> other.first_index,
     last_index |-> other.last_index]

\* move constructor, lines 67-71: the new object takes the array
RingMoveTo(other) ==
    [buffer |-> other.buffer, max_size |-> other.max_size,
     first_index |-> other.first_index, last_index |-> other.last_index]

\* move constructor, lines 72-75: what is left of the other
RingMovedFrom(other) ==
    [buffer |-> [i \in 0..(-1) |-> other.buffer[i]], max_size |-> 0,
     first_index |-> 0, last_index |-> 0]

\* size() and capacity(), lines 147 and 154
RingSize(rb) == rb.last_index - rb.first_index
RingCapacity(rb) == rb.max_size

(***************************************************************************)
(* The device list of the dispatcher: one console (main.cc), plus the      *)
(* addresses a CPU may present                                             *)
(***************************************************************************)
ConsoleBase == 1016
ConsoleSpan == 8
Devices == << [addr_begin |-> ConsoleBase, byte_span |-> ConsoleSpan] >>

\* the requests a CPU may present: RX byte, status byte, RX with a width the
\* console does not resolve, and an address no device decodes
IoRequests == { [addr |-> ConsoleBase, width |-> width_byte],
                [addr |-> ConsoleBase + 1, width |-> width_byte],
                [addr |-> ConsoleBase, width |-> width_half],
                [addr |-> ConsoleBase + ConsoleSpan, width |-> width_byte] }
\* what the console backend would deliver at the time it is asked: the byte
\* returned by request() and the flag returned by poll()
BackendNow == { [rx |-> 65, poll |-> FALSE], [rx |-> 66, poll |-> TRUE] }

(***************************************************************************)
(* console_frontend::resolve_read                                          *)
(***************************************************************************)
resolve_read(offset, width) ==
    IF offset = 0 /\ width = width_byte THEN "read"
    ELSE IF offset = 1 /\ width = width_byte THEN "ioctl_get"
    ELSE "invalid"

(***************************************************************************)
(* io_frontend::read.  rx is what backend->request would return now, poll  *)
(* what backend->poll would return now (the backend is time-varying).      *)
(* Result: the new frontend state, the value returned, and whether the     *)
(* backend was invoked.                                                    *)
(***************************************************************************)
frontend_read(f, offset, width, rx, poll) ==
    IF f.read_offset.has
    THEN IF f.read_offset.val = offset
         THEN [f |-> f, ret |-> f.read_data, backend |-> 0]
         ELSE [f |-> f, ret |-> None, backend |-> 0]
    ELSE LET type == resolve_read(offset, width)
             raw  == IF type = "read" THEN Some(rx)
                     ELSE IF type = "ioctl_get"
                          THEN Some((IF poll THEN 2 ELSE 0) + 1)
                     ELSE None
             data == IF raw.has THEN Some(zero_truncate(raw.val, width))
                     ELSE raw
         IN [f |-> [read_offset |-> Some(offset), read_data |-> data],
             ret |-> data,
             backend |-> IF type \in {"read", "ioctl_get"} THEN 1 ELSE 0]

\* io_frontend::next_cycle
frontend_next_cycle(f) == [f EXCEPT !.read_offset = None]

(***************************************************************************)
(* io_dispatcher::request_read.  Result: new ring, new frontend state, the *)
(* returned optional, which branch was taken, and how many frontend and    *)
(* backend invocations were made.                                          *)
(***************************************************************************)
DeviceOf(addr) ==
    {i \in 1..Len(Devices) :
        addr >= Devices[i].addr_begin
        /\ addr < Devices[i].addr_begin + Devices[i].byte_span}

\* bus.cc 40-57: req_no is the next new request; the first device whose range
\* holds addr is read through its frontend and the result is pushed
request_new(rb, f, addr, width, rx, poll) ==
    IF DeviceOf(addr) # {}
    THEN LET dev == Devices[CHOOSE i \in DeviceOf(addr) :
                              \A j \in DeviceOf(addr) : i <= j]
             r == frontend_read(f, addr - dev.addr_begin, width, rx, poll)
         IN [rb |-> RingPushBack(rb, [addr |-> addr, width |-> width,
                                      data |-> r.ret]),
             f |-> r.f, ret |-> r.ret, kind |-> "new",
             frontend |-> 1, backend |-> r.backend]
    ELSE [rb |-> RingPushBack(rb, [addr |-> addr, width |-> width,
                                   data |-> None]),
          f |-> f, ret |-> None, kind |-> "new",
          frontend |-> 0, backend |-> 0]

\* a dispatcher without memoization: a request already in the ring is
\* answered by asking the device again
request_read_nomemo(rb, f, addr, width, req_no, rx, poll) ==
    IF req_no < rb.first_index
    THEN [rb |-> rb, f |-> f, ret |-> None, kind |-> "underflow",
          frontend |-> 0, backend |-> 0]
    ELSE IF req_no < rb.last_index
    THEN [rb |-> rb, f |-> f, ret |-> Some(rx), kind |-> "cached",
          frontend |-> 1, backend |-> 1]
    ELSE IF req_no = rb.last_index
    THEN request_new(rb, f, addr, width, rx, poll)
    ELSE [rb |-> rb, f |-> f, ret |-> None, kind |-> "overflow",
          frontend |-> 0, backend |-> 0]

request_read(rb, f, addr, width, req_no, rx, poll) ==
    IF req_no < rb.first_index
    THEN [rb |-> rb, f |-> f, ret |-> None, kind |-> "underflow",
          frontend |-> 0, backend |-> 0]
    ELSE IF req_no < rb.last_index
    THEN LET cached == RingAt(rb, req_no)
         IN IF cached.addr = addr /\ cached.width = width
            THEN [rb |-> rb, f |-> f, ret |-> cached.data, kind |-> "cached",
                  frontend |-> 0, backend |-> 0]
            ELSE [rb |-> rb, f |-> f, ret |-> None, kind |-> "mismatch",
                  frontend |-> 0, backend |-> 0]
    ELSE IF req_no = rb.last_index
    THEN request_new(rb, f, addr, width, rx, poll)
    ELSE [rb |-> rb, f |-> f, ret |-> None, kind |-> "overflow",
          frontend |-> 0, backend |-> 0]

(***************************************************************************)
(* mmio_agent::read: the in-cycle scan over [old_read_count, read_count),  *)
(* then the dispatcher request with req_no = read_count++.                 *)
(* InCycleHit is the first index of the scan whose address matches.        *)
(***************************************************************************)
InCycleHits(rb, old, cnt, addr) ==
    {i \in old..(cnt - 1) : RingAt(rb, i).addr = addr}

\* the indices the scan of lines 110-126 reads with buffer[i]: the loop
\* leaves at the first index whose address matches
InCycleScanned(rb, old, cnt, addr) ==
    {i \in old..(cnt - 1) :
        \A j \in old..(i - 1) : RingAt(rb, j).addr # addr}

\* the indices one mmio_agent::read reads from the ring: those of the scan
\* and, if the dispatcher is asked, req_no where line 32 reads it
agent_read_accesses(rb, old, cnt, addr) ==
    InCycleScanned(rb, old, cnt, addr)
    \cup IF InCycleHits(rb, old, cnt, addr) = {}
            /\ cnt >= rb.first_index /\ cnt < rb.last_index
         THEN {cnt} ELSE {}

agent_read(rb, f, old, cnt, addr, width, rx, poll) ==
    LET hits == InCycleHits(rb, old, cnt, addr)
    IN IF hits # {}
       THEN LET i == CHOOSE h \in hits : \A g \in hits : h <= g
            IN [rb |-> rb, f |-> f, cnt |-> cnt,
                ret |-> IF RingAt(rb, i).width = width
                        THEN RingAt(rb, i).data ELSE None,
                kind |-> "incycle", req_no |-> -1,
                frontend |-> 0, backend |-> 0]
       ELSE LET r == request_read(rb, f, addr, width, cnt, rx, poll)
            IN [rb |-> r.rb, f |-> r.f, cnt |-> cnt + 1, ret |-> r.ret,
                kind |-> r.kind, req_no |-> cnt,
                frontend |-> r.frontend, backend |-> r.backend]

(***************************************************************************)
(* console_frontend::resolve_write                                         *)
(***************************************************************************)
resolve_write(offset, width) ==
    IF offset = 0 /\ width = width_byte THEN "write"
    ELSE IF offset = 2 /\ width = width_half THEN "ioctl_set"
    ELSE "invalid"

(***************************************************************************)
(* io_frontend::write.  Result: the new frontend state, the value          *)
(* returned, and how many times backend->put was called.                   *)
(***************************************************************************)
frontend_write(f, offset, width, data) ==
    IF f.write_offset.has
    THEN IF f.write_offset.val # offset
         THEN [f |-> f, ret |-> FALSE, put |-> 0]
         ELSE IF f.write_data # data
         THEN [f |-> f, ret |-> FALSE, put |-> 0]
         ELSE [f |-> f, ret |-> f.write_result, put |-> 0]
    ELSE LET type == resolve_write(offset, width)
             result == type \in {"write", "ioctl_set"}
         IN [f |-> [write_offset |-> Some(offset), write_data |-> data,
                    write_result |-> result],
             ret |-> result,
             put |-> IF type = "write" THEN 1 ELSE 0]

(***************************************************************************)
(* io_dispatcher::request_write.  Result: new ring, new frontend state,    *)
(* the returned flag, which branch was taken, and how many frontend writes *)
(* and backend puts were made.                                             *)
(***************************************************************************)
\* bus.cc 85-94: req_no is the next new request; the first device whose range
\* holds addr is written through its frontend and the result is pushed
write_new(wb, f, addr, width, data) ==
    IF DeviceOf(addr) # {}
    THEN LET dev == Devices[CHOOSE i \in DeviceOf(addr) :
                              \A j \in DeviceOf(addr) : i <= j]
             r == frontend_write(f, addr - dev.addr_begin, width, data)
         IN [wb |-> RingPushBack(wb, [addr |-> addr, width |-> width,
                                      data |-> data, result |-> r.ret]),
             f |-> r.f, ret |-> r.ret, kind |-> "new",
             frontend |-> 1, put |-> r.put]
    ELSE [wb |-> RingPushBack(wb, [addr |-> addr, width |-> width,
                                   data |-> data, result |-> FALSE]),
          f |-> f, ret |-> FALSE, kind |-> "new",
          frontend |-> 0, put |-> 0]

\* a dispatcher that writes the device again for a request number it holds
request_write_again(wb, f, addr, width, req_no, data) ==
    IF req_no < wb.first_index
    THEN LET r == write_new(wb, f, addr, width, data)
         IN [wb |-> wb, f |-> r.f, ret |-> r.ret, kind |-> "underflow",
             frontend |-> r.frontend, put |-> r.put]
    ELSE IF req_no < wb.last_index
    THEN LET r == write_new(wb, f, addr, width, data)
         IN [wb |-> wb, f |-> r.f, ret |-> r.ret, kind |-> "cached",
             frontend |-> r.frontend, put |-> r.put]
    ELSE IF req_no = wb.last_index
    THEN write_new(wb, f, addr, width, data)
    ELSE [wb |-> wb, f |-> f, ret |-> FALSE, kind |-> "overflow",
          frontend |-> 0, put |-> 0]

request_write(wb, f, addr, width, req_no, data) ==
    IF req_no < wb.first_index
    THEN [wb |-> wb, f |-> f, ret |-> FALSE, kind |-> "underflow",
          frontend |-> 0, put |-> 0]
    ELSE IF req_no < wb.last_index
    THEN LET cached == RingAt(wb, req_no)
         IN IF cached.addr = addr /\ cached.width = width
               /\ cached.data = data
            THEN [wb |-> wb, f |-> f, ret |-> cached.result,
                  kind |-> "cached", frontend |-> 0, put |-> 0]
            ELSE [wb |-> wb, f |-> f, ret |-> FALSE, kind |-> "mismatch",
                  frontend |-> 0, put |-> 0]
    ELSE IF req_no = wb.last_index
    THEN write_new(wb, f, addr, width, data)
    ELSE [wb |-> wb, f |-> f, ret |-> FALSE, kind |-> "overflow",
          frontend |-> 0, put |-> 0]

(***************************************************************************)
(* mmio_agent::write: the in-cycle scan over [old_write_count,             *)
(* write_count), then the dispatcher request with req_no = write_count++.  *)
(* Line 139 compares the address of the call with the data of the entry.   *)
(***************************************************************************)
agent_write(wb, f, old, cnt, addr, width, data) ==
    LET hits == InCycleHits(wb, old, cnt, addr)
    IN IF hits # {}
       THEN LET i == CHOOSE h \in hits : \A g \in hits : h <= g
            IN [wb |-> wb, f |-> f, cnt |-> cnt,
                ret |-> IF RingAt(wb, i).width = width
                           /\ addr = RingAt(wb, i).data
                        THEN RingAt(wb, i).result ELSE FALSE,
                kind |-> "incycle", req_no |-> -1,
                frontend |-> 0, put |-> 0]
       ELSE LET r == request_write(wb, f, addr, width, cnt, data)
            IN [wb |-> r.wb, f |-> r.f, cnt |-> cnt + 1, ret |-> r.ret,
                kind |-> r.kind, req_no |-> cnt,
                frontend |-> r.frontend, put |-> r.put]

(***************************************************************************)
(* The RAM every CPU of the model is given: contiguous_memory at           *)
(* 0x80000000, which is 2^(XLEN-1) at the word width of the model.         *)
(***************************************************************************)
RamBase == 32768
RamSize == 256

(***************************************************************************)
(* libcpu/event.hh and the children of the differential tester.  DUT and   *)
(* REF are abstract_cpu objects: one step logs some events and may stop    *)
(* the CPU.                                                                *)
(***************************************************************************)
Event(type, pc, val1, val2) ==
    [type |-> type, pc |-> pc, val1 |-> val1, val2 |-> val2]

EventDefault == Event("issue", 0, 0, 0)

\* what one instruction of a child may log: nothing, an issue alone, an
\* issue with one of two register writes, an issue with a trap, and a
\* register write followed by the trap of an interrupt, and a load whose
\* register write is followed by the trap of an interrupt
StepOutputs ==
    { << >>,
      << Event("issue", 0, 19, 0) >>,
      << Event("issue", 0, 19, 0), Event("reg_write", 0, 1, 5) >>,
      << Event("issue", 0, 19, 0), Event("reg_write", 0, 1, 6) >>,
      << Event("issue", 0, 19, 0), Event("trap", 0, 2, 0) >>,
      << Event("issue", 0, 19, 0), Event("reg_write", 0, 1, 5),
         Event("trap", 4, 7, 0) >>,
      << Event("issue", 0, 3, 0), Event("load", 0, 8, 5),
         Event("reg_write", 0, 1, 5), Event("trap", 4, 7, 0) >> }

RECURSIVE RingPushAll(_, _)
RingPushAll(rb, evs) ==
    IF evs = << >> THEN rb
    ELSE RingPushAll(RingPushBack(rb, Head(evs)), Tail(evs))

(***************************************************************************)
(* simple_difftest::next_cycle, difftest.hh 135-196                        *)
(***************************************************************************)
IsCommitEvent(e) == e.type \in {"reg_write", "trap", "trap_ret"}

\* the pull_events lambda: what it appends to dest; it returns lastindex
pull_events(buffer, begin) ==
    SelectSeq([j \in 1..(buffer.last_index - begin) |->
                  RingAt(buffer, begin + j - 1)],
              IsCommitEvent)

\* the indices the loop of lines 149-155 reads with (*buffer)[i]
PullReads(buffer, begin) == begin..(buffer.last_index - 1)

\* a tester whose error flag follows the latest comparison only
compare_events_unlatched(error, dut, ref) == dut # ref

\* lines 169-180: the new value of difftest_error
compare_events(error, dut, ref) ==
    LET e1 == IF Len(dut) # Len(ref) THEN TRUE ELSE error
    IN IF ~e1
       THEN \E i \in 1..Len(dut) : dut[i] # ref[i]
       ELSE e1

\* a tester that stops only when both of its children have stopped
difftest_stopped_both ==
    difftest_error \/ (child_stopped.ref /\ child_stopped.dut)

\* abstract_difftest::stopped, difftest.hh 77-93
difftest_stopped ==
    IF difftest_error THEN TRUE
    ELSE IF child_stopped.ref THEN TRUE
    ELSE IF child_stopped.dut THEN TRUE
    ELSE FALSE

\* what the same call writes to std::cerr, lines 81-83 and 86-88
difftest_stopped_warning ==
    IF difftest_error THEN "none"
    ELSE IF child_stopped.ref
         THEN IF ~child_stopped.dut
              THEN "REF has stopped but DUT has not" ELSE "none"
    ELSE IF child_stopped.dut
         THEN IF ~child_stopped.ref
              THEN "DUT has stopped but REF has not" ELSE "none"
    ELSE "none"

\* a child after one step: every issued instruction moves its pc on, and
\* get_trap() gives the cause of the trap the step logged, nullopt after a
\* step without a trap (rv32i_cpu_system/trap.cc 71, 105, 114)
\* difftest.reset(0x80000000), main.cc 49
InitPc == RamBase

child_pc_after(pc, out) ==
    pc + 4 * Len(SelectSeq(out, LAMBDA e : e.type = "issue"))

child_trap_after(out) ==
    LET traps == SelectSeq(out, LAMBDA e : e.type = "trap")
    IN IF traps # << >>
       THEN Some(traps[Len(traps)].val1)
       ELSE None

\* the accessors of abstract_difftest, difftest.hh 46-48 and 100-102
difftest_get_pc == child_pc.dut
difftest_get_trap == child_trap.ref

\* the event at which the two vectors of a cycle first differ
FirstDiffering(dut, ref) ==
    LET n == IF Len(dut) < Len(ref) THEN Len(dut) ELSE Len(ref)
        bad == {i \in 1..n : dut[i] # ref[i]}
    IN IF bad # {}
       THEN dut[CHOOSE i \in bad : \A j \in bad : i <= j].type
       ELSE IF Len(dut) > n THEN dut[n + 1].type
       ELSE IF Len(ref) > n THEN ref[n + 1].type
       ELSE "none"

\* the tester and its children as constructed, with or without event rings
\* no cycle yet: the steps of DUT and of REF in the cycle, whether REF was
\* stepped when it had enough commit events or was stopped, and whether the
\* stepping ended when REF had too few and was running
NotStepped == [ran |-> FALSE, dut |-> 0, ref |-> 0, late |-> FALSE, short |-> FALSE]

DiffConstructed(dutbuf, refbuf) ==
    /\ dut_event_buffer = RingNew(EvBufSize, EventDefault)
    /\ ref_event_buffer = RingNew(EvBufSize, EventDefault)
    /\ has_buffer = [dut |-> dutbuf, ref |-> refbuf]
    /\ dut_buffer_index = 0
    /\ ref_buffer_index = 0
    /\ difftest_error = FALSE
    /\ child_stopped = [dut |-> FALSE, ref |-> FALSE]
    /\ dut_events = << >>
    /\ ref_events = << >>
    /\ diff_pc = "idle"
    /\ cycleDiffered = FALSE
    /\ difftest_event_buffer = RingNew(EvBufSize, EventDefault)
    /\ child_pc = [dut |-> InitPc, ref |-> InitPc]
    /\ child_trap = [dut |-> None, ref |-> None]
    /\ offending = "none"
    /\ stepping = NotStepped

(***************************************************************************)
(* Machine words.  WORD_T is instantiated at XLEN bits; a 32-bit           *)
(* instruction word is the pair of its 16-bit halves [hi, lo], and a       *)
(* WORD_T made from it keeps the low XLEN bits.                            *)
(***************************************************************************)
XLEN == 16
WordMod == 2 ^ XLEN
W(x) == x % WordMod

RECURSIVE BitAndBits(_, _)
BitAndBits(a, b) ==
    IF a = 0 \/ b = 0 THEN 0
    ELSE (a % 2) * (b % 2) + 2 * BitAndBits(a \div 2, b \div 2)

\* a & b of two words, taken four bits at a time from a table
AndNibble == [x \in 0..15 |-> [y \in 0..15 |-> BitAndBits(x, y)]]
BitAnd(a, b) ==
    AndNibble[a % 16][b % 16]
    + 16 * AndNibble[(a \div 16) % 16][(b \div 16) % 16]
    + 256 * AndNibble[(a \div 256) % 16][(b \div 256) % 16]
    + 4096 * AndNibble[(a \div 4096) % 16][(b \div 4096) % 16]

BitOr(a, b) == a + b - BitAnd(a, b)
BitXor(a, b) == a + b - 2 * BitAnd(a, b)
\* a & ~m
BitClear(a, m) == a - BitAnd(a, m)
Bit(x, i) == (x \div (2 ^ i)) % 2

Instr(hi, lo) == [hi |-> hi, lo |-> lo]
\* conversion of the uint32_t instruction to WORD_T
InstrWord(instr) == W(instr.lo)

\* libvio::sign_extend<WORD_T>, width.hh 73-83
sign_extend(value, width) ==
    IF width = width_byte
    THEN (IF (value % 256) >= 128
          THEN (value % 256) + (WordMod - 256) ELSE value % 256)
    ELSE IF width = width_half
    THEN W(value)
    ELSE value

(***************************************************************************)
(* contiguous_memory<uint32_t>, memory.hh 177-287.  Addresses are words of *)
(* XLEN bits as everywhere in the model; the value of a word is kept as    *)
(* its sizeof(WORD_T) bytes, byte 0 the least significant, so that the     *)
(* shifts of set and peek act on whole bytes.  A shift of a uint32_t by 32 *)
(* bits or more is undefined: the build either leaves 0 or uses the shift  *)
(* count modulo 32.                                                        *)
(***************************************************************************)
\* sizeof(uint32_t)
WordBytes == 4
WordOf(b0, b1, b2, b3) == [k \in 0..(WordBytes - 1) |-> << b0, b1, b2, b3 >>[k + 1]]

ShiftBuilds == {"zero", "masked"}

\* (value >> (n * 8)) & 0xFF
ShiftedByte(value, n, build) ==
    IF n < WordBytes THEN value[n]
    ELSE IF build = "masked" THEN value[n % WordBytes]
    ELSE 0

\* a bound check done without the wrap of WORD_T
out_of_bound_exact(m, addr, width) ==
    addr < m.base \/ addr + width > m.base + m.size

\* out_of_bound, lines 201-204: up_addr is a size_t, base + size a WORD_T
out_of_bound(m, addr, width) ==
    LET up_addr == addr + width
    IN addr < m.base \/ up_addr > W(m.base + m.size)

\* set, lines 235-255 (write, 231-233, calls it)
memory_set(m, addr, width, value, little_endian, build) ==
    LET start_offset == addr - m.base
    IN IF out_of_bound(m, addr, width)
       THEN [memory |-> m, ret |-> FALSE]
       ELSE [memory |->
               [m EXCEPT !.mem =
                  [j \in DOMAIN m.mem |->
                     IF j >= start_offset /\ j < start_offset + width
                     THEN ShiftedByte(value,
                                      IF little_endian THEN j - start_offset
                                      ELSE width - 1 - (j - start_offset),
                                      build)
                     ELSE m.mem[j]]],
             ret |-> TRUE]

\* peek, lines 210-229 (read, 206-208, calls it): byte k of the value
PeekedByte(m, start_offset, width, k, little_endian, build) ==
    IF little_endian
    THEN BitOr(IF k < width THEN m.mem[start_offset + k] ELSE 0,
               IF build = "masked" /\ k + WordBytes < width
               THEN m.mem[start_offset + k + WordBytes] ELSE 0)
    ELSE IF k < width THEN m.mem[start_offset + width - 1 - k] ELSE 0

memory_peek(m, addr, width, little_endian, build) ==
    IF out_of_bound(m, addr, width) THEN None
    ELSE Some([k \in 0..(WordBytes - 1) |->
                 PeekedByte(m, addr - m.base, width, k, little_endian,
                            build)])

\* value modulo 2^(8 * width)
Truncated(value, width) ==
    [k \in 0..(WordBytes - 1) |-> IF k < width THEN value[k] ELSE 0]

(***************************************************************************)
(* libcpu/riscv/riscv.hh                                                   *)
(***************************************************************************)
priv_u == 0
priv_s == 1
priv_m == 3

csr_addr_sstatus == 256
csr_addr_sie == 260
csr_addr_stvec == 261
csr_addr_sscratch == 320
csr_addr_sepc == 321
csr_addr_scause == 322
csr_addr_stval == 323
csr_addr_sip == 324
csr_addr_mvendorid == 3857
csr_addr_mstatus == 768
csr_addr_misa == 769
csr_addr_medeleg == 770
csr_addr_mideleg == 771
csr_addr_mie == 772
csr_addr_mtvec == 773
csr_addr_mscratch == 832
csr_addr_mepc == 833
csr_addr_mcause == 834
csr_addr_mtval == 835
csr_addr_mip == 836

intr_mask == 2 ^ (XLEN - 1)
intr_s_timer == 5 + intr_mask
intr_m_timer == 7 + intr_mask
except_instr_fault == 1
except_illegal_instr == 2
except_breakpoint == 3
except_load_fault == 5
except_store_fault == 7
except_env_call_u == 8
except_env_call_s == 9
except_env_call_m == 11

status_sie == 2
status_mie == 8
status_spie == 32
status_mpie == 128
status_spp == 256
mtvec_vectored == 1

(***************************************************************************)
(* riscv::exec_result_t, riscv.hh 500-541.  The members of its union are   *)
(* kept as separate fields.                                                *)
(***************************************************************************)
OpBlank ==
    [type |-> "fetch", pc |-> 0, next_pc |-> 0, instr |-> Instr(0, 0),
     decode |-> [imm |-> 0, dispatch |-> "invalid", rs1 |-> 0, rs2 |-> 0,
                 rd |-> 0],
     retire |-> [rd |-> 0, value |-> 0],
     load |-> [addr |-> 0, width |-> width_byte, sign_extend |-> FALSE,
               rd |-> 0],
     store |-> [addr |-> 0, width |-> width_byte, data |-> 0],
     trap |-> [cause |-> 0, tval |-> 0],
     sys_op |-> [ecall |-> FALSE, mret |-> FALSE, sret |-> FALSE],
     csr_op |-> [addr |-> 0, rd |-> 0, read |-> FALSE, write |-> FALSE,
                 set |-> FALSE, clear |-> FALSE, value |-> 0]]

(***************************************************************************)
(* riscv::user_core::decode, user_core.hh 46-202                           *)
(***************************************************************************)
rs1_f(instr) == (instr.lo \div 32768) + 2 * (instr.hi % 16)
rs2_f(instr) == (instr.hi \div 16) % 32
rd_f(instr) == (instr.lo \div 128) % 32

\* a 12-bit immediate sign-extended to the word
SignExtend12(v) == IF v >= 2048 THEN v + (WordMod - 4096) ELSE v

imm_i(instr) == SignExtend12(instr.hi \div 16)
imm_s(instr) == SignExtend12((instr.hi \div 512) * 32 + rd_f(instr))
imm_u(instr) == W(BitAnd(instr.lo, 61440))

\* ((instr ^ pattern) & mask) == 0
PatMatches(instr, pattern, mask) ==
    /\ BitAnd(BitXor(instr.hi, pattern.hi), mask.hi) = 0
    /\ BitAnd(BitXor(instr.lo, pattern.lo), mask.lo) = 0

MaskOpcode == Instr(0, 127)
MaskFunct3 == Instr(0, 28799)
MaskFunct7 == Instr(65024, 28799)
MaskAll == Instr(65535, 65535)

\* the rows of the pattern table for the operations that execute models
\* below, in the order of the table
InstrPatterns ==
    << << Instr(0, 55), MaskOpcode, "u", "lui" >>,
       << Instr(0, 23), MaskOpcode, "u", "auipc" >>,
       << Instr(0, 103), MaskFunct3, "i", "jalr" >>,
       << Instr(0, 3), MaskFunct3, "i", "lb" >>,
       << Instr(0, 4099), MaskFunct3, "i", "lh" >>,
       << Instr(0, 8195), MaskFunct3, "i", "lw" >>,
       << Instr(0, 16387), MaskFunct3, "i", "lbu" >>,
       << Instr(0, 20483), MaskFunct3, "i", "lhu" >>,
       << Instr(0, 35), MaskFunct3, "s", "sb" >>,
       << Instr(0, 4131), MaskFunct3, "s", "sh" >>,
       << Instr(0, 8227), MaskFunct3, "s", "sw" >>,
       << Instr(0, 19), MaskFunct3, "i", "addi" >>,
       << Instr(0, 51), MaskFunct7, "r", "add" >>,
       << Instr(0, 115), MaskAll, "r", "ecall" >>,
       << Instr(16, 115), MaskAll, "r", "ebreak" >>,
       << Instr(12320, 115), MaskAll, "r", "mret" >>,
       << Instr(4128, 115), MaskAll, "r", "sret" >>,
       << Instr(0, 4211), MaskFunct3, "i", "csrrw" >>,
       << Instr(0, 8307), MaskFunct3, "i", "csrrs" >>,
       << Instr(0, 12403), MaskFunct3, "i", "csrrc" >>,
       << Instr(0, 20595), MaskFunct3, "i", "csrrwi" >>,
       << Instr(0, 24691), MaskFunct3, "i", "csrrsi" >>,
       << Instr(0, 28787), MaskFunct3, "i", "csrrci" >>,
       << Instr(0, 24579), MaskFunct3, "i", "lwu" >>,
       << Instr(0, 12291), MaskFunct3, "i", "ld" >>,
       << Instr(0, 12323), MaskFunct3, "s", "sd" >> >>

DecodeFields(instr, encoding, operation) ==
    [imm |-> IF encoding = "i" THEN imm_i(instr)
             ELSE IF encoding = "s" THEN imm_s(instr)
             ELSE IF encoding = "u" THEN imm_u(instr)
             ELSE 0,
     dispatch |-> operation,
     rs1 |-> IF encoding = "u" THEN 0 ELSE rs1_f(instr),
     rs2 |-> IF encoding \in {"r", "s"} THEN rs2_f(instr) ELSE 0,
     rd |-> IF encoding = "s" THEN 0 ELSE rd_f(instr)]

decode(op) ==
    LET hits == {n \in 1..Len(InstrPatterns) :
                    PatMatches(op.instr, InstrPatterns[n][1],
                               InstrPatterns[n][2])}
    IN IF hits # {}
       THEN LET row == InstrPatterns[CHOOSE n \in hits :
                                        \A k \in hits : n <= k]
            IN [op EXCEPT !.type = "decode",
                          !.decode = DecodeFields(op.instr, row[3], row[4])]
       ELSE [op EXCEPT !.type = "decode", !.decode.dispatch = "invalid"]

(***************************************************************************)
(* riscv::user_core::execute, user_core.hh 248-842                         *)
(***************************************************************************)
invalid_instruction(op) ==
    [op EXCEPT !.type = "trap",
               !.trap = [cause |-> except_illegal_instr,
                         tval |-> InstrWord(op.instr)]]

CsrOperand(op, d, read, write, set, clear, value) ==
    [op EXCEPT !.type = "csr_op",
               !.csr_op = [addr |-> d.imm % 4096, rd |-> d.rd, read |-> read,
                           write |-> write, set |-> set, clear |-> clear,
                           value |-> value]]

execute(op0, g) ==
    LET d == op0.decode
        op == [op0 EXCEPT !.type = "retire",
                          !.next_pc = IF op0.instr.lo % 4 = 3
                                      THEN W(op0.pc + 4) ELSE W(op0.pc + 2),
                          !.retire.rd = d.rd]
        ea == W(g[d.rs1] + d.imm)
        Load(width, sext) ==
            [op EXCEPT !.type = "load",
                       !.load = [addr |-> ea, width |-> width,
                                 sign_extend |-> sext, rd |-> d.rd]]
        Store(width) ==
            [op EXCEPT !.type = "store",
                       !.store = [addr |-> ea, width |-> width,
                                  data |-> g[d.rs2]]]
        SysOp(ecall, mret, sret) ==
            [op EXCEPT !.type = "sys_op",
                       !.sys_op = [ecall |-> ecall, mret |-> mret,
                                   sret |-> sret]]
    IN CASE d.dispatch = "add" ->
              [op EXCEPT !.retire.value = W(g[d.rs1] + g[d.rs2])]
         [] d.dispatch = "addi" -> [op EXCEPT !.retire.value = ea]
         [] d.dispatch = "lui" -> [op EXCEPT !.retire.value = d.imm]
         [] d.dispatch = "auipc" ->
              [op EXCEPT !.retire.value = W(op.pc + d.imm)]
         [] d.dispatch = "jalr" ->
              [op EXCEPT !.retire.value = op.next_pc,
                         !.next_pc = BitClear(ea, 1)]
         [] d.dispatch = "lb" -> Load(width_byte, TRUE)
         [] d.dispatch = "lh" -> Load(width_half, TRUE)
         [] d.dispatch = "lw" -> Load(width_word, TRUE)
         [] d.dispatch = "lbu" -> Load(width_byte, FALSE)
         [] d.dispatch = "lhu" -> Load(width_half, FALSE)
         [] d.dispatch = "sb" -> Store(width_byte)
         [] d.dispatch = "sh" -> Store(width_half)
         [] d.dispatch = "sw" -> Store(width_word)
         [] d.dispatch = "ecall" -> SysOp(TRUE, FALSE, FALSE)
         [] d.dispatch = "ebreak" ->
              [op EXCEPT !.type = "trap",
                         !.trap = [cause |-> except_breakpoint,
                                   tval |-> op.pc]]
         [] d.dispatch = "mret" -> SysOp(FALSE, TRUE, FALSE)
         [] d.dispatch = "sret" -> SysOp(FALSE, FALSE, TRUE)
         [] d.dispatch = "csrrw" ->
              CsrOperand(op, d, d.rd # 0, TRUE, FALSE, FALSE, g[d.rs1])
         [] d.dispatch = "csrrs" ->
              CsrOperand(op, d, TRUE, FALSE, d.rs1 # 0, FALSE, g[d.rs1])
         [] d.dispatch = "csrrc" ->
              CsrOperand(op, d, TRUE, FALSE, FALSE, d.rs1 # 0, g[d.rs1])
         [] d.dispatch = "csrrwi" ->
              CsrOperand(op, d, d.rd # 0, TRUE, FALSE, FALSE, d.rs1)
         [] d.dispatch = "csrrsi" ->
              CsrOperand(op, d, TRUE, FALSE, d.rs1 # 0, FALSE, d.rs1)
         [] d.dispatch = "csrrci" ->
              CsrOperand(op, d, TRUE, FALSE, FALSE, d.rs1 # 0, d.rs1)
         [] OTHER -> invalid_instruction(op)

(***************************************************************************)
(* riscv::privilege_module, privilege_module.hh.  pm is the record of its  *)
(* fields.  The CPU is set up with RAM on both buses and without an MMIO   *)
(* agent (mmio_bus == nullptr).                                            *)
(***************************************************************************)
\* memory::out_of_bound, memory.cc 137-140, negated
InRam(addr, width) ==
    addr >= RamBase /\ addr + width <= RamBase + RamSize

\* privilege_module::reset, 196-216
pm_reset ==
    [priv_level |-> priv_m,
     mepc |-> 0, sepc |-> 0, mtvec |-> 0, stvec |-> 0,
     mcause |-> 0, scause |-> 0, mtval |-> 0, stval |-> 0,
     mscratch |-> 0, sscratch |-> 0, medeleg |-> 0, mideleg |-> 0,
     mie |-> 0, sie |-> 0, mip |-> 0, sip |-> 0,
     status |-> [mpp |-> priv_m, spp |-> FALSE, mpie |-> FALSE,
                 spie |-> FALSE, mie |-> FALSE, sie |-> FALSE]]

\* paddr_fetch_instruction, 229-243: fetched is what instr_bus->read gave
paddr_fetch_instruction(op, fetched, word) ==
    IF fetched
    THEN [op EXCEPT !.type = "fetch", !.instr = word]
    ELSE [op EXCEPT !.type = "trap",
                    !.trap = [cause |-> except_instr_fault, tval |-> op.pc]]

\* paddr_load, 271-297: data is the content of RAM at the address
paddr_load(op, data) ==
    LET l == op.load
    IN IF InRam(l.addr, l.width)
       THEN LET zext == W(zero_truncate(data, l.width))
            IN [op EXCEPT !.type = "retire",
                          !.retire = [rd |-> l.rd,
                                      value |-> IF l.sign_extend
                                                THEN sign_extend(zext, l.width)
                                                ELSE zext]]
       ELSE [op EXCEPT !.type = "trap",
                       !.trap = [cause |-> except_load_fault,
                                 tval |-> l.addr]]

\* a paddr_store that returns without finishing the record
paddr_store_unfinished(op) == op

\* paddr_store, 299-321
paddr_store(op) ==
    IF InRam(op.store.addr, op.store.width)
    THEN [op EXCEPT !.type = "retire", !.retire = [rd |-> 0, value |-> 0]]
    ELSE [op EXCEPT !.type = "trap",
                    !.trap = [cause |-> except_store_fault,
                              tval |-> op.store.addr]]

\* the data paddr_store hands to data_bus->write and mmio_bus->write, 301-306
paddr_store_data(op) == op.store.data

\* what the history says of the store of a call: the record the execute
\* stage produced and the data handed to the bus
NoStoreOp == [is |-> FALSE, addr |-> 0, width |-> width_byte, data |-> 0, handed |-> 0]

\* raise_interrupt, 395-403
raise_interrupt(pm, cause) ==
    LET cause_mask == 2 ^ BitClear(cause, intr_mask)
    IN IF BitAnd(pm.mideleg, cause_mask) # 0
       THEN [pm EXCEPT !.sip = BitOr(@, cause_mask)]
       ELSE [pm EXCEPT !.mip = BitOr(@, cause_mask)]

LowestBit(x) == CHOOSE i \in 0..(XLEN - 1) :
                    Bit(x, i) = 1 /\ \A j \in 0..(i - 1) : Bit(x, j) = 0

\* a selection that lets a clear MIE mask the M interrupts below M too
InterruptTarget_mie_only(pm) ==
    IF BitAnd(pm.mie, pm.mip) # 0 /\ pm.status.mie
    THEN priv_m
    ELSE IF BitAnd(pm.sie, pm.sip) # 0 /\ pm.priv_level # priv_m
            /\ (pm.status.sie \/ pm.priv_level = priv_u)
    THEN priv_s
    ELSE -1

\* the level handle_interrupt would deliver to, or -1 (lines 414-432)
InterruptTarget(pm) ==
    IF BitAnd(pm.mie, pm.mip) # 0
       /\ (pm.status.mie \/ pm.priv_level # priv_m)
    THEN priv_m
    ELSE IF BitAnd(pm.sie, pm.sip) # 0 /\ pm.priv_level # priv_m
            /\ (pm.status.sie \/ pm.priv_level = priv_u)
    THEN priv_s
    ELSE -1

\* a handle_interrupt that saves the pc of the instruction, not next_pc
handle_interrupt_epc_pc(pm, op) ==
    LET pc == op.pc
        target == InterruptTarget(pm)
        cause == IF target = priv_m THEN LowestBit(BitAnd(pm.mie, pm.mip))
                 ELSE LowestBit(BitAnd(pm.sie, pm.sip))
        tvec == IF target = priv_m THEN pm.mtvec ELSE pm.stvec
    IN IF target = -1 THEN [pm |-> pm, op |-> op]
       ELSE IF target = priv_m
       THEN [pm |-> [pm EXCEPT !.mcause = BitOr(cause, intr_mask),
                               !.mtval = 0, !.mepc = pc,
                               !.status.mpp = pm.priv_level,
                               !.status.mpie = pm.status.mie,
                               !.status.mie = FALSE,
                               !.priv_level = target],
             op |-> [op EXCEPT !.next_pc = BitClear(tvec, mtvec_vectored)]]
       ELSE [pm |-> [pm EXCEPT !.scause = BitOr(cause, intr_mask),
                               !.stval = 0, !.sepc = pc,
                               !.status.spp = (pm.priv_level = priv_s),
                               !.status.spie = pm.status.sie,
                               !.status.sie = FALSE,
                               !.priv_level = target],
             op |-> [op EXCEPT !.next_pc = BitClear(tvec, mtvec_vectored)]]

\* handle_interrupt, 405-469
handle_interrupt(pm, op) ==
    LET pc == op.next_pc
        target == InterruptTarget(pm)
        cause == IF target = priv_m THEN LowestBit(BitAnd(pm.mie, pm.mip))
                 ELSE LowestBit(BitAnd(pm.sie, pm.sip))
        tvec == IF target = priv_m THEN pm.mtvec ELSE pm.stvec
        vector_base == BitClear(tvec, mtvec_vectored)
        is_vectord == BitAnd(tvec, mtvec_vectored) # 0
        target_addr == IF is_vectord THEN W(vector_base + 4 * cause)
                       ELSE vector_base
    IN IF target = -1 THEN [pm |-> pm, op |-> op]
       ELSE IF target = priv_m
       THEN [pm |-> [pm EXCEPT !.mcause = BitOr(cause, intr_mask),
                               !.mtval = 0,
                               !.mepc = pc,
                               !.status.mpp = pm.priv_level,
                               !.status.mpie = pm.status.mie,
                               !.status.mie = FALSE,
                               !.priv_level = target],
             op |-> [op EXCEPT !.next_pc = target_addr]]
       ELSE [pm |-> [pm EXCEPT !.scause = BitOr(cause, intr_mask),
                               !.stval = 0,
                               !.sepc = pc,
                               !.status.spp = (pm.priv_level = priv_s),
                               !.status.spie = pm.status.sie,
                               !.status.sie = FALSE,
                               !.priv_level = target],
             op |-> [op EXCEPT !.next_pc = target_addr]]

\* a selection that follows medeleg at every privilege level
ExceptionTarget_any_level(pm, cause) ==
    IF BitAnd(pm.medeleg, 2 ^ cause) # 0 THEN priv_s ELSE priv_m

\* the level handle_exception delivers to (lines 479-484)
ExceptionTarget(pm, cause) ==
    IF pm.priv_level # priv_m /\ BitAnd(pm.medeleg, 2 ^ cause) # 0
    THEN priv_s ELSE priv_m

\* a handle_exception that leaves retire.rd as it finds it
handle_exception_keeps_rd(pm, op) ==
    LET target == ExceptionTarget(pm, op.trap.cause)
        done == [op EXCEPT !.type = "retire",
                           !.next_pc = IF target = priv_m
                                       THEN BitClear(pm.mtvec, mtvec_vectored)
                                       ELSE BitClear(pm.stvec,
                                                     mtvec_vectored)]
    IN IF target = priv_m
       THEN [pm |-> [pm EXCEPT !.mcause = op.trap.cause,
                               !.mtval = op.trap.tval, !.mepc = op.pc,
                               !.status.mpp = pm.priv_level,
                               !.status.mpie = pm.status.mie,
                               !.status.mie = FALSE,
                               !.priv_level = target],
             op |-> done]
       ELSE [pm |-> [pm EXCEPT !.scause = op.trap.cause,
                               !.stval = op.trap.tval, !.sepc = op.pc,
                               !.status.spp = (pm.priv_level = priv_s),
                               !.status.spie = pm.status.sie,
                               !.status.sie = FALSE,
                               !.priv_level = target],
             op |-> done]

\* handle_exception, 471-514
handle_exception(pm, op) ==
    LET pc == op.pc
        cause == op.trap.cause
        tval == op.trap.tval
        target == ExceptionTarget(pm, cause)
        target_addr == IF target = priv_m
                       THEN BitClear(pm.mtvec, mtvec_vectored)
                       ELSE BitClear(pm.stvec, mtvec_vectored)
        done == [op EXCEPT !.type = "retire", !.next_pc = target_addr,
                           !.retire.rd = 0]
    IN IF target = priv_m
       THEN [pm |-> [pm EXCEPT !.mcause = cause,
                               !.mtval = tval,
                               !.mepc = pc,
                               !.status.mpp = pm.priv_level,
                               !.status.mpie = pm.status.mie,
                               !.status.mie = FALSE,
                               !.priv_level = target],
             op |-> done]
       ELSE [pm |-> [pm EXCEPT !.scause = cause,
                               !.stval = tval,
                               !.sepc = pc,
                               !.status.spp = (pm.priv_level = priv_s),
                               !.status.spie = pm.status.sie,
                               !.status.sie = FALSE,
                               !.priv_level = target],
             op |-> done]

(***************************************************************************)
(* privilege_module::csr_op, 541-615                                       *)
(***************************************************************************)
\* line 546
csr_read_access(pm, addr) == pm.priv_level >= (addr \div 256) % 4
\* line 552
csr_write_access(pm, addr) ==
    csr_read_access(pm, addr) /\ (addr \div 1024) # 3

\* the conditions of lines 547 and 553
CsrAccessViolation(pm, c) ==
    \/ ~csr_read_access(pm, c.addr) /\ c.read
    \/ ~csr_write_access(pm, c.addr) /\ (c.write \/ c.set \/ c.clear)

\* the registers handled by the CSRRCS macro, by address
CsrrcsField ==
    [a \in {csr_addr_mepc, csr_addr_sepc, csr_addr_mtvec, csr_addr_stvec,
            csr_addr_mcause, csr_addr_scause, csr_addr_mtval, csr_addr_stval,
            csr_addr_mscratch, csr_addr_sscratch, csr_addr_medeleg,
            csr_addr_mideleg, csr_addr_mie, csr_addr_sie, csr_addr_mip,
            csr_addr_sip} |->
       CASE a = csr_addr_mepc -> "mepc" [] a = csr_addr_sepc -> "sepc"
         [] a = csr_addr_mtvec -> "mtvec" [] a = csr_addr_stvec -> "stvec"
         [] a = csr_addr_mcause -> "mcause" [] a = csr_addr_scause -> "scause"
         [] a = csr_addr_mtval -> "mtval" [] a = csr_addr_stval -> "stval"
         [] a = csr_addr_mscratch -> "mscratch"
         [] a = csr_addr_sscratch -> "sscratch"
         [] a = csr_addr_medeleg -> "medeleg"
         [] a = csr_addr_mideleg -> "mideleg"
         [] a = csr_addr_mie -> "mie" [] a = csr_addr_sie -> "sie"
         [] a = csr_addr_mip -> "mip" [] a = csr_addr_sip -> "sip"]

\* the CSRRCS macro, 516-527: the new value of the register
CSRRCS(old, c) ==
    IF c.write THEN c.value
    ELSE IF c.set THEN BitOr(old, c.value)
    ELSE IF c.clear THEN BitClear(old, c.value)
    ELSE old

\* the STATUSRCS macro, 529-539: the new value of the status bit
STATUSRCS(old, mask, c) ==
    IF c.write THEN BitAnd(c.value, mask) # 0
    ELSE IF c.set THEN (IF BitAnd(c.value, mask) # 0 THEN TRUE ELSE old)
    ELSE IF c.clear THEN (IF BitAnd(c.value, mask) # 0 THEN FALSE ELSE old)
    ELSE old

StatusBits(st, names) ==
    (IF "spp" \in names /\ st.spp THEN status_spp ELSE 0)
    + (IF "mpie" \in names /\ st.mpie THEN status_mpie ELSE 0)
    + (IF "spie" \in names /\ st.spie THEN status_spie ELSE 0)
    + (IF "mie" \in names /\ st.mie THEN status_mie ELSE 0)
    + (IF "sie" \in names /\ st.sie THEN status_sie ELSE 0)

\* lines 585-603, the new status.mpp
MstatusMpp(mpp, c) ==
    LET field == (c.value \div 2048) % 4
        raw == IF c.write THEN field
               ELSE IF c.set THEN BitOr(mpp, field)
               ELSE IF c.clear THEN BitClear(mpp, field)
               ELSE mpp
    IN IF raw # priv_u /\ raw # priv_s THEN priv_m ELSE raw

csr_op(pm, op0) ==
    LET c == op0.csr_op
        \* lines 547-557: the trap is written into the record ...
        op1 == IF CsrAccessViolation(pm, c)
               THEN [op0 EXCEPT !.type = "trap",
                                !.trap = [cause |-> except_illegal_instr,
                                          tval |-> InstrWord(op0.instr)]]
               ELSE op0
        \* ... and lines 559-561 follow without a return
        op == [op1 EXCEPT !.type = "retire",
                          !.retire = [rd |-> c.rd, value |-> 0]]
    IN IF c.addr = csr_addr_misa
       THEN [pm |-> pm, op |-> [op EXCEPT !.retire.value = W(4352)]]
       ELSE IF c.addr \in DOMAIN CsrrcsField
       THEN LET name == CsrrcsField[c.addr]
            IN [pm |-> [pm EXCEPT ![name] = CSRRCS(pm[name], c)],
                op |-> [op EXCEPT !.retire.value = pm[name]]]
       ELSE IF c.addr = csr_addr_mstatus
       THEN LET st == pm.status
            IN [pm |-> [pm EXCEPT !.status =
                          [mpp |-> MstatusMpp(st.mpp, c),
                           spp |-> STATUSRCS(st.spp, status_spp, c),
                           mpie |-> STATUSRCS(st.mpie, status_mpie, c),
                           spie |-> STATUSRCS(st.spie, status_spie, c),
                           mie |-> STATUSRCS(st.mie, status_mie, c),
                           sie |-> STATUSRCS(st.sie, status_sie, c)]],
                op |-> [op EXCEPT !.retire.value =
                          st.mpp * 2048
                          + StatusBits(st, {"spp", "mpie", "spie", "mie",
                                            "sie"})]]
       ELSE IF c.addr = csr_addr_sstatus
       THEN LET st == pm.status
            IN [pm |-> [pm EXCEPT !.status =
                          [st EXCEPT !.spp = STATUSRCS(st.spp, status_spp, c),
                                     !.spie = STATUSRCS(st.spie, status_spie,
                                                        c),
                                     !.sie = STATUSRCS(st.sie, status_sie,
                                                       c)]],
                op |-> [op EXCEPT !.retire.value =
                          StatusBits(st, {"spp", "spie", "sie"})]]
       ELSE [pm |-> pm, op |-> op]

\* the CSRs the switch of lines 563-614 has a case for
StagedCsrs ==
    DOMAIN CsrrcsField \cup {csr_addr_misa, csr_addr_mstatus, csr_addr_sstatus}

\* the word an operation reads from the CSR, lines 518, 566-568, 589-605 and
\* 609-611
CsrCell(pm, addr) ==
    IF addr = csr_addr_misa THEN W(4352)
    ELSE IF addr \in DOMAIN CsrrcsField THEN pm[CsrrcsField[addr]]
    ELSE IF addr = csr_addr_mstatus
    THEN pm.status.mpp * 2048
         + StatusBits(pm.status, {"spp", "mpie", "spie", "mie", "sie"})
    ELSE IF addr = csr_addr_sstatus
    THEN StatusBits(pm.status, {"spp", "spie", "sie"})
    ELSE 0

\* what the history says of the CSR operation of a call: the operands, what
\* the register held before and after, what was read, and whether it ended
\* as an illegal-instruction trap
NoCsrOp ==
    [is |-> FALSE, level |-> priv_m, addr |-> 0, defined |-> FALSE, allowed |-> FALSE, write |-> FALSE, set |-> FALSE, clear |-> FALSE, value |-> 0, old |-> 0, stored |-> 0, rd |-> 0, read |-> 0, trapped |-> FALSE]

(***************************************************************************)
(* privilege_module::sys_op, 620-660                                       *)
(***************************************************************************)
\* a sys_op whose mret and sret leave the interrupt enables as they are
sys_op_keeps_enable(pm, op) ==
    LET illegal == [op EXCEPT !.type = "trap",
                              !.trap = [cause |-> except_illegal_instr,
                                        tval |-> InstrWord(op.instr)]]
    IN IF op.sys_op.ecall
       THEN [pm |-> pm,
             op |-> [op EXCEPT !.type = "trap",
                       !.trap = [cause |->
                                   IF pm.priv_level = priv_u
                                   THEN except_env_call_u
                                   ELSE IF pm.priv_level = priv_s
                                   THEN except_env_call_s
                                   ELSE except_env_call_m,
                                 tval |-> 0]]]
       ELSE IF op.sys_op.mret
       THEN IF pm.priv_level # priv_m
            THEN [pm |-> pm, op |-> illegal]
            ELSE [pm |-> [pm EXCEPT !.priv_level = pm.status.mpp,
                                    !.status.mpie = TRUE,
                                    !.status.mpp = priv_u],
                  op |-> [op EXCEPT !.type = "retire", !.retire.rd = 0,
                                    !.next_pc = pm.mepc]]
       ELSE IF op.sys_op.sret
       THEN IF pm.priv_level = priv_u
            THEN [pm |-> pm, op |-> illegal]
            ELSE [pm |-> [pm EXCEPT !.priv_level = IF pm.status.spp
                                                   THEN priv_s ELSE priv_u,
                                    !.status.spie = TRUE,
                                    !.status.spp = FALSE],
                  op |-> [op EXCEPT !.type = "retire", !.retire.rd = 0,
                                    !.next_pc = pm.sepc]]
       ELSE [pm |-> pm, op |-> op]

sys_op(pm, op) ==
    LET illegal == [op EXCEPT !.type = "trap",
                              !.trap = [cause |-> except_illegal_instr,
                                        tval |-> InstrWord(op.instr)]]
    IN IF op.sys_op.ecall
       THEN [pm |-> pm,
             op |-> [op EXCEPT !.type = "trap",
                       !.trap = [cause |->
                                   IF pm.priv_level = priv_u
                                   THEN except_env_call_u
                                   ELSE IF pm.priv_level = priv_s
                                   THEN except_env_call_s
                                   ELSE except_env_call_m,
                                 tval |-> 0]]]
       ELSE IF op.sys_op.mret
       THEN IF pm.priv_level # priv_m
            THEN [pm |-> pm, op |-> illegal]
            ELSE [pm |-> [pm EXCEPT !.priv_level = pm.status.mpp,
                                    !.status.mie = pm.status.mpie,
                                    !.status.mpie = TRUE,
                                    !.status.mpp = priv_u],
                  op |-> [op EXCEPT !.type = "retire", !.retire.rd = 0,
                                    !.next_pc = pm.mepc]]
       ELSE IF op.sys_op.sret
       THEN IF pm.priv_level = priv_u
            THEN [pm |-> pm, op |-> illegal]
            ELSE [pm |-> [pm EXCEPT !.priv_level = IF pm.status.spp
                                                   THEN priv_s ELSE priv_u,
                                    !.status.sie = pm.status.spie,
                                    !.status.spie = TRUE,
                                    !.status.spp = FALSE],
                  op |-> [op EXCEPT !.type = "retire", !.retire.rd = 0,
                                    !.next_pc = pm.sepc]]
       ELSE [pm |-> pm, op |-> op]

(***************************************************************************)
(* riscv_cpu_system, riscv_cpu_system.hh                                   *)
(***************************************************************************)
\* n_gpr, line 41
NumGpr == 32

\* reset, 54-63, with init_pc; user_core::reset clears the registers
cpu_reset(er, init_pc) ==
    [gpr |-> [r \in 0..(NumGpr - 1) |-> 0],
     pm |-> pm_reset,
     op |-> [er EXCEPT !.pc = init_pc],
     is_stopped |-> FALSE,
     last_trap |-> None]

\* a register write that does not look at rd
commit_gpr_unguarded(g, retire) == [g EXCEPT ![retire.rd] = retire.value]

\* lines 169-177: the register write of a retire
commit_gpr(g, retire) ==
    IF retire.rd # 0 THEN [g EXCEPT ![retire.rd] = retire.value] ELSE g

\* lines 101-148: the privileged operation of the record, if it has one
privileged_op(pm, op, data) ==
    CASE op.type = "load" -> [pm |-> pm, op |-> paddr_load(op, data)]
      [] op.type = "store" -> [pm |-> pm, op |-> paddr_store(op)]
      [] op.type = "csr_op" -> csr_op(pm, op)
      [] op.type = "sys_op" -> sys_op(pm, op)
      [] OTHER -> [pm |-> pm, op |-> op]

\* lines 103-147: the event logged for the privileged operation.  before is
\* the record handed to the privilege module, after the one it left, pm the
\* module after the operation.  Lines 136 and 141 read sys_op.mret and
\* sys_op.sret after retire.rd was stored into the same union; flags_kept
\* says whether the flags are still read as execute stored them.
privileged_events(before, after, pm, flags_kept) ==
    IF after.type # "retire" THEN << >>
    ELSE CASE before.type = "load" ->
                << Event("load", after.pc, before.load.addr,
                         zero_truncate(after.retire.value,
                                       before.load.width)) >>
           [] before.type = "store" ->
                << Event("store", after.pc, before.store.addr,
                         zero_truncate(before.store.data,
                                       before.store.width)) >>
           [] before.type = "sys_op" ->
                IF flags_kept /\ before.sys_op.mret
                THEN << Event("trap_ret", after.pc, pm.mepc, 0) >>
                ELSE IF flags_kept /\ before.sys_op.sret
                THEN << Event("trap_ret", after.pc, pm.sepc, 0) >>
                ELSE << >>
           [] OTHER -> << >>

\* a CPU that never forgets the cause of a trap
last_trap_kept(ltrap, op) ==
    IF op.type = "trap" /\ op.trap.cause # except_breakpoint
    THEN Some(op.trap.cause)
    ELSE ltrap

\* lines 151-154, 161 and 164: what last_trap is after the record op left
\* the privilege module
last_trap_after(ltrap, op) ==
    IF op.type = "trap"
    THEN IF op.trap.cause = except_breakpoint
         THEN ltrap
         ELSE Some(op.trap.cause)
    ELSE None

\* get_trap, lines 186-189
get_trap == last_trap

\* lines 150-179: the delivery of the trap or of an interrupt, the register
\* write and the pc.  fetched, executed and priv are the record after the
\* fetch, after the user core and after the privilege module (with the
\* module).  The fields after events describe the call for the properties:
\* whether some stage raised an exception and which, whether a CSR access
\* check failed, what was delivered and to which level, and next_pc as the
\* retire left it.
deliver_and_commit(g, pm, er, stopped, ltrap, fetched, executed, priv, flags_kept) ==
    LET issued == fetched.type = "fetch"
        violation == executed.type = "csr_op"
                     /\ CsrAccessViolation(pm, executed.csr_op)
        evs == (IF issued
                THEN << Event("issue", fetched.pc, InstrWord(fetched.instr),
                              0) >>
                ELSE << >>)
               \o privileged_events(executed, priv.op, priv.pm, flags_kept)
        about == [raised |-> priv.op.type = "trap" \/ violation,
                  cause |-> IF priv.op.type = "trap" THEN priv.op.trap.cause
                            ELSE except_illegal_instr,
                  csr_violation |-> violation,
                  instr |-> fetched.instr,
                  pc |-> er.pc,
                  retired |-> priv.op.type # "trap",
                  pm |-> priv.pm,
                  store |-> IF executed.type = "store"
                            THEN [is |-> TRUE,
                                  addr |-> executed.store.addr,
                                  width |-> executed.store.width,
                                  data |-> executed.store.data,
                                  handed |-> paddr_store_data(executed)]
                            ELSE NoStoreOp,
                  csr |-> IF executed.type = "csr_op"
                          THEN [is |-> TRUE,
                                level |-> pm.priv_level,
                                addr |-> executed.csr_op.addr,
                                defined |-> executed.csr_op.addr
                                              \in StagedCsrs,
                                allowed |-> ~violation,
                                write |-> executed.csr_op.write,
                                set |-> executed.csr_op.set,
                                clear |-> executed.csr_op.clear,
                                value |-> executed.csr_op.value,
                                old |-> CsrCell(pm, executed.csr_op.addr),
                                stored |-> CsrCell(priv.pm,
                                                   executed.csr_op.addr),
                                rd |-> executed.csr_op.rd,
                                read |-> priv.op.retire.value,
                                trapped |-> /\ priv.op.type = "trap"
                                            /\ priv.op.trap.cause =
                                                  except_illegal_instr]
                          ELSE NoCsrOp]
        RegWrite(op) == IF op.retire.rd # 0
                        THEN << Event("reg_write", op.pc, op.retire.rd,
                                      op.retire.value) >>
                        ELSE << >>
    IN IF priv.op.type = "trap"
       THEN IF priv.op.trap.cause = except_breakpoint
            THEN [gpr |-> g, pm |-> priv.pm, op |-> priv.op,
                  is_stopped |-> TRUE,
                  last_trap |-> last_trap_after(ltrap, priv.op),
                  events |-> evs,
                  delivered |-> "none", target |-> -1,
                  retire_next_pc |-> priv.op.next_pc, about |-> about]
            ELSE CHOOSE r \in
                   { [gpr |-> commit_gpr(g, h.op.retire),
                      pm |-> h.pm,
                      op |-> [h.op EXCEPT !.pc = h.op.next_pc],
                      is_stopped |-> stopped,
                      last_trap |-> last_trap_after(ltrap, priv.op),
                      events |-> evs \o << Event("trap", priv.op.pc,
                                                 priv.op.trap.cause,
                                                 priv.op.trap.tval) >>
                                     \o RegWrite(h.op),
                      delivered |-> "exception",
                      target |-> ExceptionTarget(priv.pm,
                                                 priv.op.trap.cause),
                      retire_next_pc |-> priv.op.next_pc,
                      about |-> about] :
                     h \in {handle_exception(priv.pm, priv.op)} } : TRUE
       ELSE CHOOSE r \in
              { [gpr |-> commit_gpr(g, h.op.retire),
                 pm |-> h.pm,
                 op |-> [h.op EXCEPT !.pc = h.op.next_pc],
                 is_stopped |-> stopped,
                 last_trap |-> last_trap_after(ltrap, priv.op),
                 events |-> evs \o RegWrite(h.op),
                 delivered |-> IF InterruptTarget(priv.pm) # -1
                               THEN "interrupt" ELSE "none",
                 target |-> InterruptTarget(priv.pm),
                 retire_next_pc |-> priv.op.next_pc,
                 about |-> about] :
                h \in {handle_interrupt(priv.pm, priv.op)} } : TRUE

\* lines 87-99: decode and execute of a fetched word
user_stage(fetched, g) ==
    IF fetched.type = "fetch"
    THEN CHOOSE r \in {execute(d, g) : d \in {decode(fetched)}} : TRUE
    ELSE fetched

\* next_instruction, 83-180.  word is the content of instruction memory at
\* the pc, data the content of data memory at a load's address.  Each stage
\* is computed once and handed to the next.
next_instruction(g, pm, er, stopped, ltrap, word, data, flags_kept) ==
    CHOOSE r \in
      UNION { UNION { { deliver_and_commit(g, pm, er, stopped, ltrap,
                                           fetched, executed, priv,
                                           flags_kept) :
                          priv \in {privileged_op(pm, executed, data)} } :
                      executed \in {user_stage(fetched, g)} } :
              fetched \in {paddr_fetch_instruction(
                               er, InRam(er.pc, width_word), word)} } : TRUE

(***************************************************************************)
(* riscv_cpu<WORD_T> (riscv_cpu/*.hh) with the trap handling and mret of   *)
(* rv32i_cpu_system (rv32i_cpu_system.cc).  A CPU is the record of its     *)
(* fields; the operations return the CPU and the events they logged.       *)
(***************************************************************************)
csr_addr_mstatush == 784
except_instr_misalign == 0
\* mstatus<uint32_t>::mppl | mpph
status_mpp == 6144

\* rv32i_cpu_system::csr_list, rv32i_cpu_system.cc 7-19, with the values
\* cut to the word; the reset pc stands for 0x80000000
csr_list ==
    << [addr |-> csr_addr_mip, init_value |-> 0, wpri_mask |-> 65535],
       [addr |-> csr_addr_mie, init_value |-> 0, wpri_mask |-> 65535],
       [addr |-> csr_addr_mstatus, init_value |-> 6144, wpri_mask |-> 6280],
       [addr |-> csr_addr_mtvec, init_value |-> RamBase, wpri_mask |-> 65533],
       [addr |-> csr_addr_mscratch, init_value |-> 0, wpri_mask |-> 65535],
       [addr |-> csr_addr_mepc, init_value |-> 0, wpri_mask |-> 65534],
       [addr |-> csr_addr_mcause, init_value |-> 0, wpri_mask |-> 32783],
       [addr |-> csr_addr_mtval, init_value |-> 0, wpri_mask |-> 65535],
       [addr |-> csr_addr_misa, init_value |-> 4352, wpri_mask |-> 0],
       [addr |-> csr_addr_mstatush, init_value |-> 0, wpri_mask |-> 0] >>

\* the index of the CSR in the list, 0 if the list does not have it
CsrIndex(addr) ==
    LET hits == {i \in 1..Len(csr_list) : csr_list[i].addr = addr}
    IN IF hits = {} THEN 0 ELSE CHOOSE i \in hits : \A k \in hits : i <= k

\* csr.hh 18-87: access without permission checks
csr_read(csr, addr) ==
    IF CsrIndex(addr) = 0 THEN 0 ELSE csr[CsrIndex(addr)]
csr_read_bits(csr, addr, bit_mask) ==
    IF CsrIndex(addr) = 0 THEN 0 ELSE BitAnd(csr[CsrIndex(addr)], bit_mask)
csr_write(csr, addr, value) ==
    IF CsrIndex(addr) = 0 THEN csr
    ELSE [csr EXCEPT ![CsrIndex(addr)] = value]
csr_write_bits(csr, addr, value, bit_mask) ==
    IF CsrIndex(addr) = 0 THEN csr
    ELSE [csr EXCEPT ![CsrIndex(addr)] =
             BitOr(BitClear(@, bit_mask), BitAnd(value, bit_mask))]
csr_set_bits(csr, addr, bits) ==
    IF CsrIndex(addr) = 0 THEN csr
    ELSE [csr EXCEPT ![CsrIndex(addr)] = BitOr(@, bits)]
csr_clear_bits(csr, addr, bits) ==
    IF CsrIndex(addr) = 0 THEN csr
    ELSE [csr EXCEPT ![CsrIndex(addr)] = BitClear(@, bits)]

\* csr.hh 91-98
csr_check_read_access(c, addr) == c.priv_level >= (addr \div 256) % 4
csr_check_write_access(c, addr) ==
    csr_check_read_access(c, addr) /\ (addr \div 1024) # 3

\* riscv_cpu::reset, cpu.hh 11-27.  The initial values are pushed onto the
\* CSR vector, and next_pc is not assigned: it keeps the value it had
riscv_cpu_reset(c, init_pc) ==
    [gpr |-> [r \in 0..(NumGpr - 1) |-> 0],
     csr |-> c.csr \o [i \in 1..Len(csr_list) |-> csr_list[i].init_value],
     pc |-> init_pc,
     next_pc |-> c.next_pc,
     is_stopped |-> FALSE,
     priv_level |-> priv_m,
     except_mcause |-> None,
     except_mtval |-> None,
     next_trap |-> None]

\* raise_exception, cpu.hh 76-80
raise_exception(c, mcause, mtval) ==
    [c EXCEPT !.except_mcause = Some(mcause), !.except_mtval = Some(mtval)]

\* a decode_t of riscv_cpu: op names the instruction function, "nullptr"
\* when the word matches none
Decoded(op, instr, imm, rs1, rs2, rd) ==
    [op |-> op, instr |-> instr, imm |-> imm, rs1 |-> rs1, rs2 |-> rs2,
     rd |-> rd]

\* riscv_cpu::load, memory.hh 12-35
riscv_cpu_load(c, d, width, sext, data) ==
    LET addr == W(c.gpr[d.rs1] + d.imm)
        zext == W(zero_truncate(data, width))
    IN IF InRam(addr, width)
       THEN [cpu |-> [c EXCEPT !.gpr[d.rd] = IF sext
                                             THEN sign_extend(zext, width)
                                             ELSE zext],
             events |-> << Event("load", c.pc, addr, zext) >>]
       ELSE [cpu |-> raise_exception(c, except_load_fault, addr),
             events |-> << >>]

\* riscv_cpu::store, memory.hh 37-54
riscv_cpu_store(c, d, width) ==
    LET addr == W(c.gpr[d.rs1] + d.imm)
        data == W(zero_truncate(c.gpr[d.rs2], width))
    IN IF InRam(addr, width)
       THEN [cpu |-> c, events |-> << Event("store", c.pc, addr, data) >>]
       ELSE [cpu |-> raise_exception(c, except_store_fault, addr),
             events |-> << >>]

\* riscv_cpu::csrrw, csr.hh 102-126
riscv_cpu_csrrw(c, d) ==
    LET csr_addr == d.imm % 4096
        i == CsrIndex(csr_addr)
    IN IF ~csr_check_write_access(c, csr_addr) \/ i = 0
       THEN raise_exception(c, except_illegal_instr, InstrWord(d.instr))
       ELSE LET oldval == c.csr[i]
                newval == IF d.rs1 = 0 THEN 0 ELSE c.gpr[d.rs1]
                mask == csr_list[i].wpri_mask
            IN [c EXCEPT !.gpr = IF d.rd # 0
                                 THEN [c.gpr EXCEPT ![d.rd] = oldval]
                                 ELSE c.gpr,
                         !.csr[i] = BitOr(BitClear(oldval, mask),
                                          BitAnd(newval, mask))]

\* riscv_cpu::csrrs, csr.hh 128-156
riscv_cpu_csrrs(c, d) ==
    LET csr_addr == d.imm % 4096
        i == CsrIndex(csr_addr)
    IN IF \/ ~csr_check_read_access(c, csr_addr)
          \/ d.rs1 # 0 /\ ~csr_check_write_access(c, csr_addr)
          \/ i = 0
       THEN raise_exception(c, except_illegal_instr, InstrWord(d.instr))
       ELSE LET oldval == c.csr[i]
                bitmask == IF d.rs1 = 0 THEN 0 ELSE c.gpr[d.rs1]
            IN [c EXCEPT !.gpr = IF d.rd # 0
                                 THEN [c.gpr EXCEPT ![d.rd] = oldval]
                                 ELSE c.gpr,
                         !.csr[i] = IF d.rs1 # 0
                                    THEN BitOr(oldval,
                                               BitAnd(bitmask,
                                                      csr_list[i].wpri_mask))
                                    ELSE oldval]

\* riscv_cpu::ecall, instructions.hh 250-264
riscv_cpu_ecall(c) ==
    raise_exception(c,
                    IF c.priv_level = priv_u THEN except_env_call_u
                    ELSE IF c.priv_level = priv_s THEN except_env_call_s
                    ELSE except_env_call_m,
                    0)

\* rv32i_cpu_system::mret, rv32i_cpu_system.cc 110-138
mret(c, d) ==
    IF c.priv_level # priv_m
    THEN [cpu |-> raise_exception(c, except_illegal_instr,
                                  InstrWord(d.instr)),
          events |-> << >>]
    ELSE LET mepc == csr_read(c.csr, csr_addr_mepc)
             mpp == csr_read_bits(c.csr, csr_addr_mstatus, status_mpp)
                      \div 2048
             mie == csr_read_bits(c.csr, csr_addr_mstatus, status_mpie)
                      \div 16
             csr1 == csr_write_bits(c.csr, csr_addr_mstatus, mie, status_mie)
             csr2 == csr_set_bits(csr1, csr_addr_mstatus, status_mpie)
             csr3 == csr_clear_bits(csr2, csr_addr_mstatus, status_mpp)
         IN [cpu |-> [c EXCEPT !.next_pc = mepc, !.priv_level = mpp,
                               !.csr = csr3],
             events |-> << Event("trap_ret", c.pc, mepc, 0) >>]

\* lines 40-50 and 76-86 of handle_trap: the CSRs of a trap taken at epc
TrapCsrs(c, epc, cause, tval) ==
    LET csr1 == csr_write_bits(c.csr, csr_addr_mstatus, c.priv_level * 2048,
                               status_mpp)
        mpie == csr_read_bits(csr1, csr_addr_mstatus, status_mie) * 16
        csr2 == csr_write_bits(csr1, csr_addr_mstatus, mpie, status_mpie)
        csr3 == csr_clear_bits(csr2, csr_addr_mstatus, status_mie)
        csr4 == csr_write(csr3, csr_addr_mepc, epc)
        csr5 == csr_write(csr4, csr_addr_mcause, cause)
    IN csr_write(csr5, csr_addr_mtval, tval)

\* the causes that are pending and enabled (lines 74-75)
PendingCauses(c) ==
    {cause \in 0..15 : Bit(c.csr[1], cause) = 1
                       /\ Bit(csr_read(c.csr, csr_addr_mie), cause) = 1}

\* rv32i_cpu_system::handle_trap, rv32i_cpu_system.cc 33-108
handle_trap(c) ==
    IF c.except_mcause.has
    THEN IF c.except_mcause.val = except_breakpoint
         THEN [cpu |-> [c EXCEPT !.is_stopped = TRUE], events |-> << >>]
         ELSE LET csrs == TrapCsrs(c, c.pc,
                                   BitClear(c.except_mcause.val, intr_mask),
                                   c.except_mtval.val)
                  vector_base == BitClear(csr_read(csrs, csr_addr_mtvec),
                                          mtvec_vectored)
              IN [cpu |-> [c EXCEPT !.csr = csrs,
                                    !.priv_level = priv_m,
                                    !.next_trap = c.except_mcause,
                                    !.next_pc = vector_base,
                                    !.except_mcause = None,
                                    !.except_mtval = None],
                  events |-> << Event("trap", c.pc, c.except_mcause.val,
                                      c.except_mtval.val) >>]
    ELSE IF c.csr[1] # 0
            /\ c.priv_level = priv_m
            /\ csr_read_bits(c.csr, csr_addr_mstatus, status_mie) = 0
    THEN [cpu |-> c, events |-> << >>]
    ELSE IF c.csr[1] # 0 /\ PendingCauses(c) # {}
    THEN LET cause == CHOOSE x \in PendingCauses(c) :
                          \A y \in PendingCauses(c) : x <= y
             csrs == TrapCsrs(c, c.next_pc, BitOr(cause, intr_mask), 0)
             mtvec == csr_read(csrs, csr_addr_mtvec)
             vector_base == BitClear(mtvec, mtvec_vectored)
         IN [cpu |-> [c EXCEPT !.csr = csrs,
                               !.priv_level = priv_m,
                               !.next_trap =
                                   Some(csr_read(csrs, csr_addr_mcause)),
                               !.next_pc =
                                   IF BitAnd(mtvec, mtvec_vectored) # 0
                                   THEN W(vector_base + cause * 4)
                                   ELSE vector_base],
             events |-> << Event("trap", c.next_pc, BitOr(cause, intr_mask),
                                 0) >>]
    ELSE [cpu |-> [c EXCEPT !.next_trap = None], events |-> << >>]

\* the call decode.op(this, decode) of exec.hh 54
riscv_cpu_op(c, d, data) ==
    CASE d.op = "addi" ->
           [cpu |-> [c EXCEPT !.gpr[d.rd] = W(c.gpr[d.rs1] + d.imm)],
            events |-> << >>]
      [] d.op = "lui" ->
           [cpu |-> [c EXCEPT !.gpr[d.rd] = d.imm], events |-> << >>]
      [] d.op = "lb" -> riscv_cpu_load(c, d, width_byte, TRUE, data)
      [] d.op = "lbu" -> riscv_cpu_load(c, d, width_byte, FALSE, data)
      [] d.op = "sb" -> riscv_cpu_store(c, d, width_byte)
      [] d.op = "ecall" -> [cpu |-> riscv_cpu_ecall(c), events |-> << >>]
      [] d.op = "ebreak" ->
           [cpu |-> raise_exception(c, except_breakpoint, 0),
            events |-> << >>]
      [] d.op = "mret" -> mret(c, d)
      [] d.op = "csrrw" -> [cpu |-> riscv_cpu_csrrw(c, d), events |-> << >>]
      [] d.op = "csrrs" -> [cpu |-> riscv_cpu_csrrs(c, d), events |-> << >>]

\* exec.hh 20-62: the instruction up to the label next_instr
before_next_instr(c, d, data) ==
    LET issue == << Event("issue", c.pc, InstrWord(d.instr), 0) >>
    IN IF c.pc % 4 # 0
       THEN [cpu |-> raise_exception(c, except_instr_misalign, c.pc),
             events |-> << >>]
       ELSE IF ~InRam(c.pc, width_word)
       THEN [cpu |-> raise_exception(c, except_instr_fault, c.pc),
             events |-> << >>]
       ELSE IF d.op = "nullptr"
       THEN [cpu |-> raise_exception(c, except_illegal_instr,
                                     InstrWord(d.instr)),
             events |-> issue]
       ELSE CHOOSE r \in
              { [cpu |-> [ran.cpu EXCEPT !.gpr[0] = 0],
                 events |->
                    issue \o ran.events
                    \o (IF ~ran.cpu.except_mcause.has /\ d.rd # 0
                        THEN << Event("reg_write", c.pc, d.rd,
                                      ran.cpu.gpr[d.rd]) >>
                        ELSE << >>)] :
                ran \in {riscv_cpu_op([c EXCEPT !.next_pc = W(c.pc + 4)],
                                      d, data)} } : TRUE

\* riscv_cpu::next_instruction, exec.hh 14-72, on a CPU without MMIO agent.
\* d is what decode_instruction gives for the word at the pc.
riscv_cpu_next_instruction(c, d, data) ==
    CHOOSE r \in
      UNION { { [cpu |-> [trapped.cpu EXCEPT !.pc = trapped.cpu.next_pc],
                 events |-> before.events \o trapped.events,
                 interrupted |-> ~before.cpu.except_mcause.has
                                 /\ trapped.events # << >>] :
                  trapped \in {handle_trap(before.cpu)} } :
              before \in {before_next_instr(c, d, data)} } : TRUE

(***************************************************************************)
(* The CPU object before anything ran on it                                *)
(***************************************************************************)
\* what the history says when no instruction has run
CallNone ==
    [op |-> "none", events |-> << >>, delivered |-> "none", target |-> -1,
     retire_next_pc |-> 0, interrupted |-> FALSE, is_mret |-> FALSE,
     deliverable_before |-> FALSE, pm_after |-> pm_reset, bus |-> << >>,
     agent |-> FALSE, record |-> OpBlank,
     about |-> [raised |-> FALSE, cause |-> 0, csr_violation |-> FALSE,
                instr |-> Instr(0, 0), pc |-> 0, retired |-> FALSE,
                pm |-> pm_reset, store |-> NoStoreOp, csr |-> NoCsrOp],
     after |-> [valid |-> FALSE, priv_level |-> priv_m, mie |-> FALSE,
                pc |-> 0, target |-> priv_m]]

NoTrapTaken ==
    [valid |-> FALSE, priv_level |-> priv_m, mie |-> FALSE, pc |-> 0,
     target |-> priv_m]

\* an rv32i_cpu_system as constructed: no CSR vector yet
Rv32Constructed ==
    [gpr |-> [r \in 0..(NumGpr - 1) |-> 0], csr |-> << >>, pc |-> RamBase,
     next_pc |-> 0, is_stopped |-> FALSE, priv_level |-> priv_m,
     except_mcause |-> None, except_mtval |-> None, next_trap |-> None]

StagedConstructed ==
    /\ gpr = [r \in 0..(NumGpr - 1) |-> 0]
    /\ privilege_module = pm_reset
    /\ exec_result = OpBlank
    /\ is_stopped = FALSE
    /\ last_trap = None

NoCpu ==
    /\ cpu_kind = "none"
    /\ StagedConstructed
    /\ rv32 = Rv32Constructed
    /\ steps = 0
    /\ call = CallNone
    /\ taken = NoTrapTaken

(***************************************************************************)
(* Ring buffer objects used on their own: two objects, each constructed    *)
(* at most once                                                            *)
(***************************************************************************)
RingNames == {"a", "b"}
\* the capacities given to ringbuffer(size_t n)
RingCaps == {0, 1, 2}
\* the elements pushed
Elems == {1, 2}
\* a default constructed element (new T[n], line 51)
ElemDefault == 0

NoRing == RingNew(0, ElemDefault)
NotFresh == [fresh |-> FALSE, elems |-> << >>]
RingOpNone ==
    [op |-> "none", obj |-> "a", other |-> "a",
     before |-> [r \in RingNames |-> NoRing],
     alive |-> [r \in RingNames |-> FALSE]]

NoRings ==
    /\ ring = [r \in RingNames |-> NoRing]
    /\ ring_alive = [r \in RingNames |-> FALSE]
    /\ ring_crashed = FALSE
    /\ ring_pushed = [r \in RingNames |-> NotFresh]
    /\ ring_last = RingOpNone

\* a contiguous_memory as constructed: new uint8_t[mem_size] leaves the
\* bytes as the allocator had them
MemFills == {0, 165}
MemConstructed(base, fill) ==
    [base |-> base, size |-> MemSize, mem |-> [j \in 0..(MemSize - 1) |-> fill]]
MemNone == [valid |-> FALSE, op |-> "none", addr |-> 0, width |-> 0, little_endian |-> TRUE, value |-> WordOf(0, 0, 0, 0), ret |-> None]
NoMem ==
    /\ memory = MemConstructed(RamBase, 0)
    /\ mem_build = [set |-> "zero", peek |-> "zero"]
    /\ mem_set = MemNone
    /\ mem_last = MemNone
    /\ mem_ops = 0

(***************************************************************************)
(* State machine of the dispatcher and its agents                          *)
(***************************************************************************)
ReadTupleDefault == [addr |-> 0, width |-> 0, data |-> None]
NoRequest == [set |-> FALSE, addr |-> 0, width |-> 0, ret |-> None]
NoRead == [req_no |-> -1, addr |-> 0, width |-> 0, ret |-> None,
           kind |-> "none", accessed |-> {}, first_index |-> 0,
           last_index |-> 0, frontend |-> 0, backend |-> 0]
WriteTupleDefault == [addr |-> 0, width |-> 0, data |-> 0, result |-> FALSE]
NoWriteRequest == [set |-> FALSE, addr |-> 0, width |-> 0, data |-> 0, ret |-> FALSE]
NoWrite == [req_no |-> -1, addr |-> 0, width |-> 0, data |-> 0,
            ret |-> FALSE, kind |-> "none", first_index |-> 0,
            last_index |-> 0, frontend |-> 0, put |-> 0]
NoRepeat == [is |-> FALSE, same |-> TRUE, req_no |-> -1]

\* the requests of a cycle that named the same tuple as the one presented,
\* and whether the first of them returned ret
SameTuple(sent, tuple) ==
    {i \in 1..Len(sent) : sent[i].tuple = tuple}
SameAsFirstResult(sent, tuple, ret) ==
    \A i \in SameTuple(sent, tuple) :
        (\A j \in SameTuple(sent, tuple) : i <= j) => sent[i].ret = ret
\* what a call with this tuple, this result and this request number (-1 if
\* it took none) is for the requests the agent sent before it in the cycle
RepeatOf(sent, tuple, ret, req_no) ==
    [is |-> SameTuple(sent, tuple) # {},
     same |-> SameAsFirstResult(sent, tuple, ret),
     req_no |-> req_no]
Sent(sent, tuple, ret, req_no) ==
    IF req_no >= 0 THEN Append(sent, [tuple |-> tuple, ret |-> ret])
    ELSE sent

IoConstructed ==
    /\ read_request_buffer = RingNew(BufferSize, ReadTupleDefault)
    /\ fe = [read_offset |-> None, read_data |-> None]
    /\ read_count = [a \in Agents |-> 0]
    /\ old_read_count = [a \in Agents |-> 0]
    /\ served = [k \in 0..(MaxReq - 1) |-> NoRequest]
    /\ lastRead = NoRead
    /\ beCalls = [k \in 0..(MaxReq - 1) |-> 0]
    /\ feCalls = [k \in 0..(MaxReq - 1) |-> 0]
    /\ write_request_buffer = RingNew(BufferSize, WriteTupleDefault)
    /\ fe_write = [write_offset |-> None, write_data |-> 0,
                   write_result |-> FALSE]
    /\ write_count = [a \in Agents |-> 0]
    /\ old_write_count = [a \in Agents |-> 0]
    /\ wserved = [k \in 0..(MaxReq - 1) |-> NoWriteRequest]
    /\ lastWrite = NoWrite
    /\ feWrites = [k \in 0..(MaxReq - 1) |-> 0]
    /\ in_cycle = [a \in Agents |-> << >>]
    /\ repeated = NoRepeat

InitIo ==
    /\ IoConstructed
    /\ DiffConstructed(TRUE, TRUE)
    /\ NoCpu
    /\ NoRings
    /\ NoMem

\* one call of mmio_agent::read by the CPU that owns agent a
AgentReadCall(a, addr, width, rx, poll) ==
    /\ read_count[a] < MaxReq
    /\ LET r == agent_read(read_request_buffer, fe, old_read_count[a],
                           read_count[a], addr, width, rx, poll)
       IN /\ read_request_buffer' = r.rb
          /\ fe' = r.f
          /\ read_count' = [read_count EXCEPT ![a] = r.cnt]
          /\ served' = IF r.kind = "new"
                       THEN [served EXCEPT ![r.req_no] =
                               [set |-> TRUE, addr |-> addr, width |-> width,
                                ret |-> r.ret]]
                       ELSE served
          /\ lastRead' = [req_no |-> r.req_no, addr |-> addr, width |-> width,
                          ret |-> r.ret, kind |-> r.kind,
                          accessed |-> agent_read_accesses(
                                           read_request_buffer,
                                           old_read_count[a], read_count[a],
                                           addr),
                          first_index |-> read_request_buffer.first_index,
                          last_index |-> read_request_buffer.last_index,
                          frontend |-> r.frontend, backend |-> r.backend]
          /\ beCalls' = IF r.req_no >= 0
                        THEN [beCalls EXCEPT ![r.req_no] = @ + r.backend]
                        ELSE beCalls
          /\ feCalls' = IF r.req_no >= 0
                        THEN [feCalls EXCEPT ![r.req_no] = @ + r.frontend]
                        ELSE feCalls
    /\ UNCHANGED << old_read_count, writeSide, fe_write, old_write_count,
                    diffVars, cpuVars, ringVars, memVars >>

\* the call, in a run that does not follow the requests of each cycle
AgentRead(a, addr, width, rx, poll) ==
    /\ AgentReadCall(a, addr, width, rx, poll)
    /\ UNCHANGED << in_cycle, repeated >>

\* the call, in a run that follows the requests of each cycle
AgentReadInCycle(a, addr, width, rx, poll) ==
    /\ AgentReadCall(a, addr, width, rx, poll)
    /\ LET r == agent_read(read_request_buffer, fe, old_read_count[a],
                           read_count[a], addr, width, rx, poll)
       IN /\ repeated' = RepeatOf(in_cycle[a], << addr, width >>, r.ret,
                                  r.req_no)
          /\ in_cycle' = [in_cycle EXCEPT ![a] =
                          Sent(@, << addr, width >>, r.ret, r.req_no)]

\* one call of mmio_agent::write by the CPU that owns agent a
AgentWrite(a, addr, width, data) ==
    /\ write_count[a] < MaxReq
    /\ LET r == agent_write(write_request_buffer, fe_write,
                            old_write_count[a], write_count[a], addr, width,
                            data)
       IN /\ write_request_buffer' = r.wb
          /\ fe_write' = r.f
          /\ write_count' = [write_count EXCEPT ![a] = r.cnt]
          /\ wserved' = IF r.kind = "new"
                        THEN [wserved EXCEPT ![r.req_no] =
                                [set |-> TRUE, addr |-> addr, width |-> width,
                                 data |-> data, ret |-> r.ret]]
                        ELSE wserved
          /\ lastWrite' = [req_no |-> r.req_no, addr |-> addr,
                           width |-> width, data |-> data, ret |-> r.ret,
                           kind |-> r.kind,
                           first_index |-> write_request_buffer.first_index,
                           last_index |-> write_request_buffer.last_index,
                           frontend |-> r.frontend, put |-> r.put]
          /\ repeated' = RepeatOf(in_cycle[a], << addr, width, data >>, r.ret,
                                  r.req_no)
          /\ in_cycle' = [in_cycle EXCEPT ![a] =
                          Sent(@, << addr, width, data >>, r.ret, r.req_no)]
          /\ feWrites' = IF r.req_no >= 0
                         THEN [feWrites EXCEPT ![r.req_no] = @ + r.frontend]
                         ELSE feWrites
    /\ UNCHANGED << old_write_count, readSide, fe, old_read_count,
                    diffVars, cpuVars, ringVars, memVars >>

\* mmio_agent::next_cycle
AgentNextCycle(a) ==
    /\ old_read_count[a] # read_count[a]
       \/ old_write_count[a] # write_count[a]
    /\ old_read_count' = [old_read_count EXCEPT ![a] = read_count[a]]
    /\ old_write_count' = [old_write_count EXCEPT ![a] = write_count[a]]
    /\ in_cycle' = [in_cycle EXCEPT ![a] = << >>]
    /\ UNCHANGED << readSide, writeSide, fe, fe_write, repeated,
                    diffVars, cpuVars, ringVars, memVars >>

\* io_frontend::next_cycle.  Nothing in libanemo calls it (mmio_agent's
\* next_cycle only moves its own counters); a host that kept the frontend
\* pointer may
FrontendNextCycle ==
    /\ fe.read_offset.has \/ fe_write.write_offset.has
    /\ fe' = frontend_next_cycle(fe)
    /\ fe_write' = [fe_write EXCEPT !.write_offset = None]
    /\ UNCHANGED << readSide, writeSide, old_read_count, old_write_count,
                    in_cycle, repeated, diffVars, cpuVars, ringVars, memVars >>

NextIo ==
    \/ \E a \in Agents, q \in IoRequests, b \in BackendNow :
          AgentRead(a, q.addr, q.width, b.rx, b.poll)
    \/ \E a \in Agents : AgentNextCycle(a)
    \/ FrontendNextCycle

SpecIo == InitIo /\ [][NextIo]_vars

(***************************************************************************)
(* The dispatcher with both of its paths.  Reads and writes share no field *)
(* of the dispatcher, of an agent or of the frontend (two rings, two pairs *)
(* of counters, two caches), so a run is taken on one path: the CPUs read  *)
(* or the CPUs write.                                                      *)
(***************************************************************************)
\* the writes a CPU may present: a byte to TX, a value equal to its
\* address, and an address no device decodes
WriteRequests == { [addr |-> ConsoleBase, width |-> width_byte, data |-> 65],
                   [addr |-> ConsoleBase, width |-> width_byte,
                    data |-> ConsoleBase],
                   [addr |-> ConsoleBase + ConsoleSpan, width |-> width_byte,
                    data |-> 65] }
\* the reads: RX byte and status byte, with a byte waiting in the backend
ReadRequests == { [addr |-> ConsoleBase, width |-> width_byte],
                  [addr |-> ConsoleBase + 1, width |-> width_byte] }
BackendByte == { [rx |-> 65, poll |-> TRUE] }

NothingWritten == \A a \in Agents : write_count[a] = 0
NothingRead == \A a \in Agents : read_count[a] = 0

NextBus ==
    \/ \E a \in Agents, q \in ReadRequests, b \in BackendByte :
          NothingWritten /\ AgentReadInCycle(a, q.addr, q.width, b.rx, b.poll)
    \/ \E a \in Agents, q \in WriteRequests :
          NothingRead /\ AgentWrite(a, q.addr, q.width, q.data)
    \/ \E a \in Agents : AgentNextCycle(a)
    \/ FrontendNextCycle

SpecBus == InitIo /\ [][NextBus]_vars

(***************************************************************************)
(* State machine of the differential tester.  next_cycle is a loop around  *)
(* calls into REF, so it is taken in steps: the DUT step with its pull,    *)
(* one iteration of the REF loop, and the comparison after the loop.       *)
(***************************************************************************)
InitDiff ==
    /\ IoConstructed
    /\ \E dutbuf \in BOOLEAN, refbuf \in BOOLEAN :
          DiffConstructed(dutbuf, refbuf)
    /\ NoCpu
    /\ NoRings
    /\ NoMem

\* a loop that does not ask whether REF has stopped
RefLoopCondition_unstopped == Len(ref_events) < Len(dut_events)

\* line 166
RefLoopCondition ==
    Len(ref_events) < Len(dut_events) /\ ~child_stopped.ref

\* a check that gives up only when both event buffers are missing
BufferUnavailable_both == ~has_buffer.dut /\ ~has_buffer.ref

\* line 137
BufferUnavailable == ~has_buffer.dut \/ ~has_buffer.ref

\* lines 136-162: the event buffer check, dut->next_cycle() and the pull.
\* out is what the DUT logs in this cycle, stop whether it stops, pc where
\* it is after the step.
NextCycleBegin(out, stop, pc) ==
    /\ diff_pc = "idle"
    /\ IF BufferUnavailable
       THEN /\ difftest_error' = TRUE
            /\ stepping' = [NotStepped EXCEPT !.ran = TRUE]
            /\ UNCHANGED << dut_event_buffer, child_stopped, dut_events,
                            dut_buffer_index, ref_events, diff_pc,
                            child_pc, child_trap >>
       ELSE /\ dut_event_buffer' = RingPushAll(dut_event_buffer, out)
            /\ child_stopped' = [child_stopped EXCEPT !.dut = @ \/ stop]
            /\ child_pc' = [child_pc EXCEPT !.dut = pc]
            /\ child_trap' = [child_trap EXCEPT !.dut = child_trap_after(out)]
            /\ dut_events' = pull_events(dut_event_buffer', dut_buffer_index)
            /\ dut_buffer_index' = dut_event_buffer'.last_index
            /\ ref_events' = << >>
            /\ diff_pc' = "ref_loop"
            /\ stepping' = [NotStepped EXCEPT !.ran = TRUE, !.dut = 1]
            /\ UNCHANGED difftest_error
    /\ UNCHANGED << ref_event_buffer, has_buffer, ref_buffer_index,
                    cycleDiffered, difftest_event_buffer, offending >>

\* the call on a tester whose DUT is not followed further: it logs out
DiffNextCycleBegin(out, stop) ==
    /\ ~BufferUnavailable
          => dut_event_buffer.last_index + Len(out) <= MaxEvents
    /\ NextCycleBegin(out, stop, child_pc_after(child_pc.dut, out))
    /\ UNCHANGED << ioVars, cpuVars, ringVars, memVars >>

\* lines 164-168: what one iteration of the loop that steps REF does to the
\* REF, to its event ring and to the tester
RefIteration(out, stop, pc) ==
    /\ diff_pc = "ref_loop"
    /\ RefLoopCondition
    /\ ref_event_buffer' = RingPushAll(ref_event_buffer, out)
    /\ child_stopped' = [child_stopped EXCEPT !.ref = @ \/ stop]
    /\ ref_events' = ref_events
                       \o pull_events(ref_event_buffer', ref_buffer_index)
    /\ ref_buffer_index' = ref_event_buffer'.last_index
    /\ child_pc' = [child_pc EXCEPT !.ref = pc]
    /\ child_trap' = [child_trap EXCEPT !.ref = child_trap_after(out)]
    /\ UNCHANGED << dut_event_buffer, has_buffer, dut_buffer_index,
                    difftest_error, dut_events, diff_pc, cycleDiffered,
                    difftest_event_buffer, offending >>

\* the history of the cycle after one more step of REF
RefStepCounted ==
    [stepping EXCEPT !.ref = @ + 1,
                     !.late = @ \/ stepping.dut # 1 \/ child_stopped.ref
                                \/ Len(ref_events) >= Len(dut_events)]

\* the iteration with a REF that is not followed further: it logs out
RefIterationOf(out, stop) ==
    /\ ref_event_buffer.last_index + Len(out) <= MaxEvents
    /\ RefIteration(out, stop, child_pc_after(child_pc.ref, out))
    /\ UNCHANGED << ioVars, cpuVars, ringVars, memVars >>

\* one iteration, among the first MaxRefSteps of the cycle
DiffRefIteration(out, stop) ==
    /\ stepping.ref < MaxRefSteps
    /\ RefIterationOf(out, stop)
    /\ stepping' = RefStepCounted

\* one iteration after the first MaxRefSteps of the cycle, which the
\* history no longer counts
DiffRefIterationOn(out, stop) ==
    /\ stepping.ref >= MaxRefSteps
    /\ RefIterationOf(out, stop)
    /\ UNCHANGED stepping

\* lines 170-195: the comparison, after which the local vectors are gone
DiffNextCycleEnd ==
    /\ diff_pc = "ref_loop"
    /\ ~RefLoopCondition
    /\ difftest_error' = compare_events(difftest_error, dut_events, ref_events)
    /\ cycleDiffered' = (cycleDiffered \/ dut_events # ref_events)
    /\ offending' = FirstDiffering(dut_events, ref_events)
    /\ stepping' = [stepping EXCEPT
                       !.short = Len(ref_events) < Len(dut_events)
                                 /\ ~child_stopped.ref]
    /\ dut_events' = << >>
    /\ ref_events' = << >>
    /\ diff_pc' = "idle"
    /\ UNCHANGED << dut_event_buffer, ref_event_buffer, has_buffer,
                    dut_buffer_index, ref_buffer_index, child_stopped,
                    difftest_event_buffer, child_pc, child_trap,
                    ioVars, cpuVars, ringVars, memVars >>

\* abstract_difftest::reset, difftest.hh 95-98: both children are reset
DiffReset ==
    /\ diff_pc = "idle"
    /\ child_stopped.dut \/ child_stopped.ref
    /\ child_stopped' = [dut |-> FALSE, ref |-> FALSE]
    /\ child_pc' = [dut |-> InitPc, ref |-> InitPc]
    /\ child_trap' = [dut |-> None, ref |-> None]
    /\ UNCHANGED << dut_event_buffer, ref_event_buffer, has_buffer,
                    dut_buffer_index, ref_buffer_index, difftest_error,
                    dut_events, ref_events, diff_pc, cycleDiffered,
                    difftest_event_buffer, offending, stepping, ioVars,
                    cpuVars, ringVars, memVars >>

NextDiff ==
    \/ \E out \in StepOutputs, stop \in BOOLEAN : DiffNextCycleBegin(out, stop)
    \/ \E out \in StepOutputs, stop \in BOOLEAN : DiffRefIteration(out, stop)
    \/ DiffNextCycleEnd
    \/ DiffReset

SpecDiff == InitDiff /\ [][NextDiff]_vars

(***************************************************************************)
(* The tester with the loop of line 166 followed as long as it runs.  The  *)
(* loop is sequential code of one call: while its condition holds the next *)
(* step of REF is taken, and when it fails the comparison is made.  What   *)
(* REF logs in a step, and whether it stops, is up to its program: a step  *)
(* that logs nothing and does not stop leaves every field as it was.       *)
(***************************************************************************)
RefSilentStep ==
    DiffRefIteration(<< >>, FALSE) \/ DiffRefIterationOn(<< >>, FALSE)

NextLoop ==
    \/ \E out \in StepOutputs, stop \in BOOLEAN : DiffNextCycleBegin(out, stop)
    \/ \E out \in StepOutputs, stop \in BOOLEAN : DiffRefIteration(out, stop)
    \/ \E out \in StepOutputs, stop \in BOOLEAN :
          DiffRefIterationOn(out, stop)
    \/ DiffNextCycleEnd
    \/ DiffReset

SpecLoop ==
    /\ InitDiff
    /\ [][NextLoop]_vars
    /\ WF_vars(RefSilentStep)
    /\ WF_vars(DiffNextCycleEnd)

(***************************************************************************)
(* The tester over two CPUs of one class, each with its own agent of one   *)
(* dispatcher (main.cc 21-49).  Both CPUs run the program of the RAM: a    *)
(* sequence of console accesses and register writes that ends in an        *)
(* ebreak, with x1 = the console's address and mtvec = the address of the  *)
(* ebreak.  The DUT owns agent 1, the REF agent 2.                         *)
(***************************************************************************)
\* the instructions before the ebreak
ProgLen == 3

PairImpls == {"rv32i_cpu_system", "riscv_cpu_system"}

\* rv32i_cpu_system::next_instruction ends in mmio_bus->next_cycle()
\* (exec.cc 58-60); riscv_cpu_system::next_instruction has no such call
closes_cycle(impl) == impl = "rv32i_cpu_system"

\* lbu x2, 0(x1); lbu x0, 0(x1); lbu x2, 1(x1); sb x0, 0(x1);
\* addi x3, x0, 1
PairInstrs ==
    { [op |-> "lbu", rd |-> 2, addr |-> ConsoleBase],
      [op |-> "lbu", rd |-> 0, addr |-> ConsoleBase],
      [op |-> "lbu", rd |-> 2, addr |-> ConsoleBase + 1],
      [op |-> "sb", rd |-> 0, addr |-> ConsoleBase],
      [op |-> "addi", rd |-> 3, addr |-> 0] }
Ebreak == [op |-> "ebreak", rd |-> 0, addr |-> 0]

PairPrograms == [1..ProgLen -> PairInstrs]
PairHandler == RamBase + 4 * ProgLen

\* the instruction the fetch finds at pc
PairFetch(image, pc) ==
    IF (pc - RamBase) \div 4 < Len(image)
    THEN image[(pc - RamBase) \div 4 + 1]
    ELSE Ebreak

\* the major opcode, for the Issue event
Opcode(ins) ==
    CASE ins.op = "lbu" -> 3
      [] ins.op = "sb" -> 35
      [] ins.op = "addi" -> 19
      [] OTHER -> 115

\* the fields of the dispatcher, of the console frontend and of agent a
AgentView(a) ==
    [rb |-> read_request_buffer, f |-> fe, cnt |-> read_count[a],
     old |-> old_read_count[a], wb |-> write_request_buffer,
     fw |-> fe_write, wcnt |-> write_count[a], wold |-> old_write_count[a]]

\* mmio_agent::next_cycle, when the CPU calls it
CycleClosed(impl, io) ==
    IF closes_cycle(impl) THEN [io EXCEPT !.old = io.cnt, !.wold = io.wcnt]
    ELSE io

\* one next_instruction of a CPU of class impl at pc: RAM does not hold
\* the console's addresses, so a load and a store go to the agent.  b is
\* what the console backend would deliver now.
pair_next_instruction(impl, ins, pc, io, b) ==
    LET issue == << Event("issue", pc, Opcode(ins), 0) >>
    IN CASE ins.op = "lbu" ->
              LET r == agent_read(io.rb, io.f, io.old, io.cnt, ins.addr,
                                  width_byte, b.rx, b.poll)
                  io1 == [io EXCEPT !.rb = r.rb, !.f = r.f, !.cnt = r.cnt]
              IN [io |-> CycleClosed(impl, io1),
                  pc |-> IF r.ret.has THEN pc + 4 ELSE PairHandler,
                  stop |-> FALSE,
                  events |->
                      IF r.ret.has
                      THEN issue
                           \o << Event("load", pc, ins.addr, r.ret.val) >>
                           \o IF ins.rd # 0
                              THEN << Event("reg_write", pc, ins.rd,
                                            r.ret.val) >>
                              ELSE << >>
                      ELSE issue \o << Event("trap", pc, except_load_fault,
                                             ins.addr) >>,
                  read |-> [is |-> TRUE, req_no |-> r.req_no,
                            kind |-> r.kind, ret |-> r.ret],
                  write |-> [is |-> FALSE, req_no |-> -1, kind |-> "none",
                             ret |-> FALSE]]
         [] ins.op = "sb" ->
              LET r == agent_write(io.wb, io.fw, io.wold, io.wcnt, ins.addr,
                                   width_byte, 0)
                  io1 == [io EXCEPT !.wb = r.wb, !.fw = r.f, !.wcnt = r.cnt]
              IN [io |-> CycleClosed(impl, io1),
                  pc |-> IF r.ret THEN pc + 4 ELSE PairHandler,
                  stop |-> FALSE,
                  events |->
                      IF r.ret
                      THEN issue \o << Event("store", pc, ins.addr, 0) >>
                      ELSE issue \o << Event("trap", pc, except_store_fault,
                                             ins.addr) >>,
                  read |-> [is |-> FALSE, req_no |-> -1, kind |-> "none",
                            ret |-> None],
                  write |-> [is |-> TRUE, req_no |-> r.req_no,
                             kind |-> r.kind, ret |-> r.ret]]
         [] ins.op = "addi" ->
              [io |-> CycleClosed(impl, io), pc |-> pc + 4, stop |-> FALSE,
               events |-> issue \o << Event("reg_write", pc, ins.rd, 1) >>,
               read |-> [is |-> FALSE, req_no |-> -1, kind |-> "none",
                         ret |-> None],
               write |-> [is |-> FALSE, req_no |-> -1, kind |-> "none",
                          ret |-> FALSE]]
         [] OTHER ->
              [io |-> IF impl = "riscv_cpu_system" THEN io
                      ELSE CycleClosed(impl, io),
               pc |-> IF impl = "riscv_cpu_system" THEN pc ELSE pc + 4,
               stop |-> TRUE,
               events |-> issue,
               read |-> [is |-> FALSE, req_no |-> -1, kind |-> "none",
                         ret |-> None],
               write |-> [is |-> FALSE, req_no |-> -1, kind |-> "none",
                          ret |-> FALSE]]

InitPair ==
    /\ IoConstructed
    /\ DiffConstructed(TRUE, TRUE)
    /\ NoRings
    /\ cpu_kind \in PairImpls
    /\ StagedConstructed
    /\ rv32 = Rv32Constructed
    /\ steps = 0
    /\ call = CallNone
    /\ taken = NoTrapTaken
    /\ \E image \in PairPrograms :
          memory = [base |-> RamBase, size |-> 4 * (ProgLen + 1),
                    mem |-> image]
    /\ mem_build = [set |-> "zero", peek |-> "zero"]
    /\ mem_set = MemNone
    /\ mem_last = MemNone
    /\ mem_ops = 0

\* what the step r of the CPU that owns agent a leaves in the dispatcher,
\* the frontend and the agent
PairIoAfter(a, r) ==
    /\ r.io.cnt <= MaxReq /\ r.io.wcnt <= MaxReq
    /\ read_request_buffer' = r.io.rb
    /\ fe' = r.io.f
    /\ read_count' = [read_count EXCEPT ![a] = r.io.cnt]
    /\ old_read_count' = [old_read_count EXCEPT ![a] = r.io.old]
    /\ write_request_buffer' = r.io.wb
    /\ fe_write' = r.io.fw
    /\ write_count' = [write_count EXCEPT ![a] = r.io.wcnt]
    /\ old_write_count' = [old_write_count EXCEPT ![a] = r.io.wold]
    /\ lastRead' = IF r.read.is
                   THEN [NoRead EXCEPT !.req_no = r.read.req_no,
                                       !.kind = r.read.kind,
                                       !.ret = r.read.ret,
                                       !.first_index =
                                           read_request_buffer.first_index,
                                       !.last_index =
                                           read_request_buffer.last_index]
                   ELSE lastRead
    /\ lastWrite' = IF r.write.is
                    THEN [NoWrite EXCEPT !.req_no = r.write.req_no,
                                         !.kind = r.write.kind,
                                         !.ret = r.write.ret,
                                         !.first_index =
                                             write_request_buffer.first_index,
                                         !.last_index =
                                             write_request_buffer.last_index]
                    ELSE lastWrite
    /\ UNCHANGED << served, beCalls, feCalls, wserved, feWrites, in_cycle,
                    repeated >>

\* next_cycle of the tester up to the pull of the DUT's events
PairNextCycleBegin(b) ==
    /\ cpu_kind \in PairImpls
    /\ ~difftest_stopped
    /\ \E r \in {pair_next_instruction(cpu_kind,
                                        PairFetch(memory.mem, child_pc.dut),
                                        child_pc.dut, AgentView(1), b)} :
          /\ NextCycleBegin(r.events, r.stop, r.pc)
          /\ PairIoAfter(1, r)
    /\ UNCHANGED << cpuVars, ringVars, memVars >>

\* one iteration of the loop that steps the REF
PairRefIteration(b) ==
    /\ cpu_kind \in PairImpls
    /\ \E r \in {pair_next_instruction(cpu_kind,
                                        PairFetch(memory.mem, child_pc.ref),
                                        child_pc.ref, AgentView(2), b)} :
          /\ RefIteration(r.events, r.stop, r.pc)
          /\ PairIoAfter(2, r)
    /\ stepping' = RefStepCounted
    /\ UNCHANGED << cpuVars, ringVars, memVars >>

NextPair ==
    \/ \E b \in BackendNow : PairNextCycleBegin(b)
    \/ \E b \in BackendNow : PairRefIteration(b)
    \/ DiffNextCycleEnd

SpecPair == InitPair /\ [][NextPair]_vars

(***************************************************************************)
(* State machine of a CPU.  The object is a riscv_cpu_system or an         *)
(* rv32i_cpu_system with RAM of RamSize bytes at RamBase on both buses.    *)
(* The content of the RAM is not tracked: the word an instruction fetch    *)
(* finds and the data a load finds are inputs of the step.                 *)
(***************************************************************************)
\* instruction words a program may hold
Program ==
    { Instr(80, 147),       \* addi x1, x0, 5
      Instr(16, 19),        \* addi x0, x0, 1
      Instr(0, 32951),      \* lui  x1, 0x8
      Instr(0, 33027),      \* lb   x2, 0(x1)
      Instr(0, 40963),      \* lw   x0, 0(x1)
      Instr(32, 32803),     \* sb   x2, 0(x1)
      Instr(0, 115),        \* ecall
      Instr(16, 115),       \* ebreak
      Instr(12320, 115),    \* mret
      Instr(4128, 115),     \* sret
      Instr(13312, 37235),  \* csrrw x2, mscratch, x1
      Instr(61712, 36979),  \* csrrw x0, mvendorid, x1
      Instr(12288, 8563),   \* csrrs x2, mstatus, x0
      Instr(13328, 36979),  \* csrrw x0, mepc, x1
      Instr(12304, 37235),  \* csrrw x2, misa, x1
      Instr(61712, 8563),   \* csrrs x2, mvendorid, x0
      Instr(65535, 65535) } \* no instruction

\* bytes a load may find
LoadData == {5, 133}

\* the same for decode_instruction of riscv_cpu, whose table gives the
\* instruction function and the operand fields of each word
DecodedProgram ==
    { Decoded("nullptr", Instr(65535, 65535), 0, 0, 0, 0),
      Decoded("addi", Instr(2176, 147), 136, 0, 0, 1),
      Decoded("addi", Instr(16, 19), 1, 0, 0, 0),
      Decoded("lui", Instr(0, 32951), 32768, 0, 0, 1),
      Decoded("lbu", Instr(0, 49411), 0, 1, 0, 2),
      Decoded("sb", Instr(32, 32803), 0, 1, 2, 0),
      Decoded("ecall", Instr(0, 115), 0, 0, 0, 0),
      Decoded("ebreak", Instr(16, 115), 0, 0, 0, 0),
      Decoded("mret", Instr(12320, 115), 0, 0, 0, 0),
      Decoded("csrrw", Instr(12352, 36979), csr_addr_mie, 1, 0, 0),
      Decoded("csrrw", Instr(13376, 36979), csr_addr_mip, 1, 0, 0),
      Decoded("csrrs", Instr(12288, 41331), csr_addr_mstatus, 1, 0, 2),
      Decoded("csrrw", Instr(13344, 36979), csr_addr_mcause, 1, 0, 0),
      Decoded("csrrw", Instr(12304, 37235), csr_addr_misa, 1, 0, 2),
      Decoded("csrrs", Instr(61712, 8563), csr_addr_mvendorid, 0, 0, 2) }

\* where the handlers of the booted configurations are
MHandler == RamBase + 64
SHandler == RamBase + 128
\* medeleg of the configurations that delegate: illegal instruction and the
\* environment calls from U and S
Delegated == 772

\* States in which software leaves the privilege module before the part of
\* the program under study runs: the reset state, M-mode with the handlers
\* installed and the machine timer enabled, and S- and U-mode entered by
\* mret (MPIE = 1, MPP = U) with and without delegation to S.
Installed ==
    [pm_reset EXCEPT !.mtvec = MHandler, !.stvec = SHandler, !.mie = 128,
                     !.sie = 32, !.status.mie = TRUE]
Entered(level, medeleg) ==
    [Installed EXCEPT !.priv_level = level, !.medeleg = medeleg,
                      !.mideleg = IF medeleg # 0 THEN 32 ELSE 0,
                      !.mepc = RamBase + 32,
                      !.status.mpp = priv_u, !.status.mpie = TRUE,
                      !.status.sie = TRUE]
\* The handlers entered by an interrupt taken after lui x1, with the
\* software interrupt of their level enabled and raised since: in M with
\* MIE clear and MPP = U, in S with SIE clear and SPP = U
InHandler(level) ==
    IF level = priv_m
    THEN [Entered(priv_m, 0) EXCEPT !.mie = 136, !.mip = 8,
                                    !.mcause = intr_m_timer,
                                    !.status.mie = FALSE]
    ELSE [Entered(priv_s, Delegated) EXCEPT !.sie = 34, !.mideleg = 34,
                                            !.sip = 2,
                                            !.scause = intr_s_timer,
                                            !.sepc = RamBase + 32,
                                            !.status.sie = FALSE,
                                            !.status.spie = TRUE]

\* an init_pc for reset that is not a multiple of 4 (0x80000002)
MisalignedPc == RamBase + 2

\* last is the instruction that ran before the part under study, whose
\* retire the record still holds
BootConfigs ==
    { [pm |-> pm_reset, pc |-> RamBase, x1 |-> 0, last |-> Instr(0, 0)],
      [pm |-> pm_reset, pc |-> MisalignedPc, x1 |-> 0, last |-> Instr(0, 0)],
      [pm |-> Installed, pc |-> RamBase + 48, x1 |-> RamBase,
       last |-> Instr(0, 32951)],
      [pm |-> Entered(priv_u, 0), pc |-> RamBase + 32, x1 |-> RamBase,
       last |-> Instr(12320, 115)],
      [pm |-> Entered(priv_s, Delegated), pc |-> RamBase + 32,
       x1 |-> RamBase, last |-> Instr(12320, 115)],
      [pm |-> Entered(priv_u, Delegated), pc |-> RamBase + 32,
       x1 |-> RamBase, last |-> Instr(12320, 115)],
      [pm |-> InHandler(priv_m), pc |-> MHandler, x1 |-> RamBase,
       last |-> Instr(0, 32951)],
      [pm |-> InHandler(priv_s), pc |-> SHandler, x1 |-> RamBase,
       last |-> Instr(0, 32951)] }

\* the record a configuration starts with: as reset leaves it, or the retire
\* of the last instruction (lui x1 wrote x1, mret wrote no register)
BootRecord(b) ==
    IF b.last = Instr(0, 0)
    THEN [OpBlank EXCEPT !.pc = b.pc]
    ELSE [OpBlank EXCEPT !.type = "retire", !.pc = b.pc, !.next_pc = b.pc,
                         !.instr = b.last,
                         !.retire = IF b.last = Instr(0, 32951)
                                    THEN [rd |-> 1, value |-> b.x1]
                                    ELSE [rd |-> 0, value |-> 0]]

\* the rv32i_cpu_system after reset, and after a program enabled and raised
\* the causes 3 and 7 with x1 = 136 (csrrw mie, x1; csrrw mip, x1)
Rv32Reset == riscv_cpu_reset(Rv32Constructed, RamBase)
Rv32Boots ==
    { Rv32Reset,
      riscv_cpu_reset(Rv32Constructed, MisalignedPc),
      [Rv32Reset EXCEPT !.gpr[1] = 136, !.pc = RamBase + 12,
                        !.next_pc = RamBase + 12,
                        !.csr = csr_write(csr_write(Rv32Reset.csr,
                                                    csr_addr_mie, 136),
                                          csr_addr_mip, 136)] }

\* the record as a union: only the member of its stage has a value
UnionOf(op) ==
    [OpBlank EXCEPT !.type = op.type, !.pc = op.pc, !.next_pc = op.next_pc,
                    !.instr = op.instr,
                    !.retire = IF op.type = "retire" THEN op.retire
                               ELSE OpBlank.retire,
                    !.trap = IF op.type = "trap" THEN op.trap
                             ELSE OpBlank.trap]

InitCpu ==
    /\ IoConstructed
    /\ DiffConstructed(TRUE, TRUE)
    /\ NoRings
    /\ NoMem
    /\ steps = 0
    /\ call = CallNone
    /\ taken = NoTrapTaken
    /\ \/ /\ cpu_kind = "riscv_cpu_system"
          /\ \E b \in BootConfigs :
                /\ gpr = [r \in 0..(NumGpr - 1) |->
                            IF r = 1 THEN b.x1 ELSE 0]
                /\ privilege_module = b.pm
                /\ exec_result = BootRecord(b)
          /\ is_stopped = FALSE
          /\ last_trap = None
          /\ rv32 = Rv32Constructed
       \/ /\ cpu_kind = "rv32i_cpu_system"
          /\ StagedConstructed
          /\ rv32 \in Rv32Boots

\* riscv_cpu_system::next_instruction
CpuNextInstruction(word, data, flags_kept) ==
    /\ cpu_kind = "riscv_cpu_system"
    /\ steps < MaxSteps
    /\ \E r \in {next_instruction(gpr, privilege_module, exec_result,
                                  is_stopped, last_trap, word, data,
                                  flags_kept)},
          is_mret \in {InRam(exec_result.pc, width_word)
                       /\ word = Instr(12320, 115)} :
          /\ gpr' = r.gpr
          /\ privilege_module' = r.pm
          /\ exec_result' = UnionOf(r.op)
          /\ is_stopped' = r.is_stopped
          /\ last_trap' = r.last_trap
          /\ call' = [op |-> "next_instruction", events |-> r.events,
                      delivered |-> r.delivered, target |-> r.target,
                      retire_next_pc |-> r.retire_next_pc,
                      interrupted |-> FALSE, is_mret |-> is_mret,
                      deliverable_before |->
                          InterruptTarget(privilege_module) # -1,
                      pm_after |-> r.pm, bus |-> << >>,
                      agent |-> FALSE, record |-> OpBlank,
                      about |-> r.about, after |-> taken]
          /\ taken' = IF r.delivered = "exception"
                      THEN [valid |-> TRUE,
                            priv_level |-> privilege_module.priv_level,
                            mie |-> privilege_module.status.mie,
                            pc |-> exec_result.pc,
                            target |-> r.target]
                      ELSE NoTrapTaken
    /\ steps' = steps + 1
    /\ UNCHANGED << cpu_kind, rv32, ioVars, diffVars, ringVars, memVars >>

\* privilege_module::raise_interrupt, called by a device between two
\* instructions
CpuRaiseInterrupt(cause) ==
    /\ cpu_kind = "riscv_cpu_system"
    /\ steps < MaxSteps
    /\ raise_interrupt(privilege_module, cause) # privilege_module
    /\ privilege_module' = raise_interrupt(privilege_module, cause)
    /\ UNCHANGED << cpu_kind, gpr, exec_result, is_stopped, last_trap, rv32,
                    steps, call, taken, ioVars, diffVars, ringVars, memVars >>

\* riscv_cpu_system::reset
CpuReset ==
    /\ cpu_kind = "riscv_cpu_system"
    /\ steps > 0
    /\ steps < MaxSteps
    /\ \E r \in {cpu_reset(exec_result, RamBase)} :
          /\ gpr' = r.gpr
          /\ privilege_module' = r.pm
          /\ exec_result' = r.op
          /\ is_stopped' = r.is_stopped
          /\ last_trap' = r.last_trap
    /\ call' = [CallNone EXCEPT !.op = "reset"]
    /\ taken' = NoTrapTaken
    /\ steps' = steps + 1
    /\ UNCHANGED << cpu_kind, rv32, ioVars, diffVars, ringVars, memVars >>

\* what the history says of the store the rv32i_cpu_system ran: riscv_cpu
\* has no record, the data of line 40 is what it hands to the bus
Rv32StoreOp(c, d) ==
    IF d.op = "sb" /\ c.pc % 4 = 0 /\ InRam(c.pc, width_word)
    THEN [is |-> TRUE,
          addr |-> W(c.gpr[d.rs1] + d.imm),
          width |-> width_byte,
          data |-> W(zero_truncate(c.gpr[d.rs2], width_byte)),
          handed |-> W(zero_truncate(c.gpr[d.rs2], width_byte))]
    ELSE NoStoreOp

\* what the history says of the csrrw or csrrs the rv32i_cpu_system ran
Rv32CsrOp(c, d, after) ==
    IF d.op \in {"csrrw", "csrrs"} /\ c.pc % 4 = 0 /\ InRam(c.pc, width_word)
    THEN [is |-> TRUE,
          level |-> c.priv_level,
          addr |-> d.imm % 4096,
          defined |-> CsrIndex(d.imm % 4096) # 0,
          allowed |-> /\ csr_check_read_access(c, d.imm % 4096)
                      /\ \/ d.op = "csrrs" /\ d.rs1 = 0
                         \/ csr_check_write_access(c, d.imm % 4096),
          write |-> d.op = "csrrw",
          set |-> d.op = "csrrs" /\ d.rs1 # 0,
          clear |-> FALSE,
          value |-> IF d.rs1 = 0 THEN 0 ELSE c.gpr[d.rs1],
          old |-> csr_read(c.csr, d.imm % 4096),
          stored |-> csr_read(after.csr, d.imm % 4096),
          rd |-> d.rd,
          read |-> after.gpr[d.rd],
          trapped |-> after.except_mcause = Some(except_illegal_instr)]
    ELSE NoCsrOp

\* riscv_cpu::next_instruction on the rv32i_cpu_system
Rv32NextInstruction(d, data) ==
    /\ cpu_kind = "rv32i_cpu_system"
    /\ steps < MaxSteps
    /\ \E r \in {riscv_cpu_next_instruction(rv32, d, data)},
          raised \in {before_next_instr(rv32, d, data).cpu.except_mcause} :
          /\ rv32' = r.cpu
          /\ call' = [CallNone EXCEPT !.op = "next_instruction",
                                      !.events = r.events,
                                      !.interrupted = r.interrupted,
                                      !.about.raised = raised.has,
                                      !.about.cause = raised.val,
                                      !.about.instr = d.instr,
                                      !.about.pc = rv32.pc,
                                      !.about.store =
                                          Rv32StoreOp(rv32, d),
                                      !.about.csr =
                                          Rv32CsrOp(rv32, d,
                                              before_next_instr(rv32, d,
                                                                data).cpu)]
    /\ steps' = steps + 1
    /\ UNCHANGED << cpu_kind, gpr, privilege_module, exec_result, is_stopped,
                    last_trap, taken, ioVars, diffVars, ringVars, memVars >>

\* riscv_cpu::reset on the rv32i_cpu_system
Rv32CpuReset ==
    /\ cpu_kind = "rv32i_cpu_system"
    /\ steps > 0
    /\ steps < MaxSteps
    /\ rv32' = riscv_cpu_reset(rv32, RamBase)
    /\ call' = [CallNone EXCEPT !.op = "reset"]
    /\ steps' = steps + 1
    /\ UNCHANGED << cpu_kind, gpr, privilege_module, exec_result, is_stopped,
                    last_trap, taken, ioVars, diffVars, ringVars, memVars >>

\* what a step of the staged CPU finds: the word, the data if the word is a
\* load, and whether the flags of an mret or sret are read back
Fetches ==
    { f \in [word : Program, data : LoadData, flags_kept : BOOLEAN] :
        /\ f.data = 5 \/ f.word.lo % 128 = 3
        /\ f.flags_kept \/ f.word \in {Instr(12320, 115), Instr(4128, 115)} }

\* the same for the rv32i_cpu_system
DecodedFetches ==
    { f \in [d : DecodedProgram, data : LoadData] :
        f.data = 5 \/ f.d.op \in {"lb", "lbu"} }

\* the interrupts the devices raise
InterruptCauses == {intr_s_timer, intr_m_timer}

NextCpu ==
    \/ \E f \in Fetches : CpuNextInstruction(f.word, f.data, f.flags_kept)
    \/ \E cause \in InterruptCauses : CpuRaiseInterrupt(cause)
    \/ CpuReset
    \/ \E f \in DecodedFetches : Rv32NextInstruction(f.d, f.data)
    \/ Rv32CpuReset

SpecCpu == InitCpu /\ [][NextCpu]_vars

(***************************************************************************)
(* The state machine of the ring buffers: the public operations of         *)
(* ringbuffer<T> in any order on two objects                               *)
(***************************************************************************)
InitRing ==
    /\ IoConstructed
    /\ DiffConstructed(TRUE, TRUE)
    /\ NoCpu
    /\ NoRings
    /\ NoMem

RingOp(op, r, o) ==
    [op |-> op, obj |-> r, other |-> o, before |-> ring, alive |-> ring_alive]

\* ringbuffer(size_t n)
RingConstruct(r, n) ==
    /\ ~ring_crashed
    /\ ~ring_alive[r]
    /\ ring' = [ring EXCEPT ![r] = RingNew(n, ElemDefault)]
    /\ ring_alive' = [ring_alive EXCEPT ![r] = TRUE]
    /\ ring_pushed' = [ring_pushed EXCEPT ![r] = [fresh |-> TRUE,
                                                  elems |-> << >>]]
    /\ ring_last' = RingOp("construct", r, r)
    /\ UNCHANGED << ring_crashed, ioVars, diffVars, cpuVars, memVars >>

\* push_back on a ring with slots
RingDoPushBack(r, value) ==
    /\ ~ring_crashed
    /\ ring_alive[r]
    /\ ring[r].max_size > 0
    /\ ring[r].last_index < MaxPush
    /\ ring' = [ring EXCEPT ![r] = RingPushBack(ring[r], value)]
    /\ ring_pushed' = [ring_pushed EXCEPT ![r].elems =
                           IF ring_pushed[r].fresh THEN Append(@, value)
                           ELSE @]
    /\ ring_last' = RingOp("push_back", r, r)
    /\ UNCHANGED << ring_alive, ring_crashed, ioVars, diffVars, cpuVars, memVars >>

\* push_back on a ring without slots (constructed with n = 0, or moved
\* from): last_index % max_size divides by zero, which is undefined; the
\* process is killed by the trap, or the division yields a value and the
\* store goes outside the ring
RingPushBackZero(r, trapped) ==
    /\ ~ring_crashed
    /\ ring_alive[r]
    /\ ring[r].max_size = 0
    /\ ring[r].last_index < MaxPush
    /\ IF trapped
       THEN /\ ring_crashed' = TRUE
            /\ UNCHANGED << ring, ring_pushed >>
       ELSE /\ ring' = [ring EXCEPT ![r] = RingPushBackNoSlot(ring[r])]
            /\ ring_pushed' = [ring_pushed EXCEPT ![r].elems =
                                   IF ring_pushed[r].fresh
                                   THEN Append(@, ElemDefault) ELSE @]
            /\ UNCHANGED ring_crashed
    /\ ring_last' = RingOp("push_back", r, r)
    /\ UNCHANGED << ring_alive, ioVars, diffVars, cpuVars, memVars >>

\* pop_back
RingDoPopBack(r) ==
    /\ ~ring_crashed
    /\ ring_alive[r]
    /\ ring' = [ring EXCEPT ![r] = RingPopBack(ring[r])]
    /\ ring_pushed' = [ring_pushed EXCEPT ![r] = NotFresh]
    /\ ring_last' = RingOp("pop_back", r, r)
    /\ UNCHANGED << ring_alive, ring_crashed, ioVars, diffVars, cpuVars, memVars >>

\* ringbuffer(const ringbuffer &other)
RingCopyConstruct(r, o) ==
    /\ ~ring_crashed
    /\ ~ring_alive[r]
    /\ ring_alive[o]
    /\ ring' = [ring EXCEPT ![r] = RingCopy(ring[o])]
    /\ ring_alive' = [ring_alive EXCEPT ![r] = TRUE]
    /\ ring_pushed' = [ring_pushed EXCEPT ![r] = NotFresh]
    /\ ring_last' = RingOp("copy", r, o)
    /\ UNCHANGED << ring_crashed, ioVars, diffVars, cpuVars, memVars >>

\* ringbuffer(ringbuffer &&other)
RingMoveConstruct(r, o) ==
    /\ ~ring_crashed
    /\ ~ring_alive[r]
    /\ ring_alive[o]
    /\ ring' = [ring EXCEPT ![r] = RingMoveTo(ring[o]),
                            ![o] = RingMovedFrom(ring[o])]
    /\ ring_alive' = [ring_alive EXCEPT ![r] = TRUE]
    /\ ring_pushed' = [ring_pushed EXCEPT ![r] = NotFresh, ![o] = NotFresh]
    /\ ring_last' = RingOp("move", r, o)
    /\ UNCHANGED << ring_crashed, ioVars, diffVars, cpuVars, memVars >>

\* operator=(const ringbuffer &other); r = o is the self assignment
RingAssign(r, o) ==
    /\ ~ring_crashed
    /\ ring_alive[r]
    /\ ring_alive[o]
    /\ ring' = IF r # o THEN [ring EXCEPT ![r] = RingCopy(ring[o])]
               ELSE ring
    /\ ring_pushed' = [ring_pushed EXCEPT ![r] = NotFresh]
    /\ ring_last' = RingOp("assign", r, o)
    /\ UNCHANGED << ring_alive, ring_crashed, ioVars, diffVars, cpuVars, memVars >>

NextRing ==
    \/ \E r \in RingNames, n \in RingCaps : RingConstruct(r, n)
    \/ \E r \in RingNames, value \in Elems : RingDoPushBack(r, value)
    \/ \E r \in RingNames, trapped \in BOOLEAN : RingPushBackZero(r, trapped)
    \/ \E r \in RingNames : RingDoPopBack(r)
    \/ \E r, o \in RingNames : RingCopyConstruct(r, o)
    \/ \E r, o \in RingNames : RingMoveConstruct(r, o)
    \/ \E r, o \in RingNames : RingAssign(r, o)

SpecRing == InitRing /\ [][NextRing]_vars

(***************************************************************************)
(* The state machine of a contiguous_memory: set and peek in any order.    *)
(* The RAM starts at RamBase, or it is the last MemSize bytes of the       *)
(* address space (a RAM of 2 GiB at 0x80000000 on a 32-bit machine).       *)
(***************************************************************************)
MemBases == {RamBase, WordMod - MemSize}
\* the addresses used: inside the RAM, and just before and behind it
MemOffsets == {-1, 0, 4, MemSize}
MemWidths == {width_byte, width_half, width_word, width_dword}
MemValues == {WordOf(1, 2, 3, 4), WordOf(255, 0, 128, 7)}

InitMem ==
    /\ IoConstructed
    /\ DiffConstructed(TRUE, TRUE)
    /\ NoCpu
    /\ NoRings
    /\ \E base \in MemBases, fill \in MemFills :
          memory = MemConstructed(base, fill)
    /\ mem_build \in [set : ShiftBuilds, peek : ShiftBuilds]
    /\ mem_set = MemNone
    /\ mem_last = MemNone
    /\ mem_ops = 0

\* contiguous_memory::write / set
MemSet(offset, width, value, little_endian) ==
    /\ mem_ops < MaxMemOps
    /\ memory.base + offset < WordMod
    /\ \E addr \in {memory.base + offset},
          r \in {memory_set(memory, memory.base + offset, width, value,
                            little_endian, mem_build.set)} :
          /\ memory' = r.memory
          /\ mem_set' = [valid |-> TRUE, op |-> "set", addr |-> addr,
                         width |-> width, little_endian |-> little_endian,
                         value |-> value,
                         ret |-> IF r.ret THEN Some(1) ELSE None]
          /\ mem_last' = mem_set'
    /\ mem_ops' = mem_ops + 1
    /\ UNCHANGED << mem_build, ioVars, diffVars, cpuVars, ringVars >>

\* contiguous_memory::read / peek
MemPeek(offset, width, little_endian) ==
    /\ mem_ops < MaxMemOps
    /\ memory.base + offset < WordMod
    /\ mem_last' = [valid |-> TRUE, op |-> "peek",
                    addr |-> memory.base + offset, width |-> width,
                    little_endian |-> little_endian,
                    value |-> WordOf(0, 0, 0, 0),
                    ret |-> memory_peek(memory, memory.base + offset, width,
                                        little_endian, mem_build.peek)]
    /\ mem_ops' = mem_ops + 1
    /\ UNCHANGED << memory, mem_build, mem_set, ioVars, diffVars, cpuVars,
                    ringVars >>

NextMem ==
    \/ \E offset \in MemOffsets, width \in MemWidths, value \in MemValues,
          little_endian \in BOOLEAN :
          MemSet(offset, width, value, little_endian)
    \/ \E offset \in MemOffsets, width \in MemWidths,
          little_endian \in BOOLEAN : MemPeek(offset, width, little_endian)

SpecMem == InitMem /\ [][NextMem]_vars

(***************************************************************************)
(* The privilege module used on its own: the virtual-address operations    *)
(* and the loads, called on a record the host prepared.  The RAM holds at  *)
(* each address the word addi x0, x0, offset, so that a word read tells    *)
(* the address it was read from.                                           *)
(***************************************************************************)
except_instr_page_fault == 12
except_load_page_fault == 13

\* the instruction word the RAM holds at the address
RomWord(addr) == Instr(((addr - RamBase) % 256) * 16, 19)

\* what the history says of one access: the translation of an address, or
\* a read of the instruction bus, the data bus or the MMIO agent, and the
\* optional it returned
Access(bus, addr, width, result) ==
    [bus |-> bus, addr |-> addr, width |-> width, result |-> result]

\* memory::read of the RAM, for instructions and for data whose content at
\* the address is data
ram_read_instr(paddr) ==
    IF InRam(paddr, width_word) THEN Some(RomWord(paddr)) ELSE None
ram_read_data(paddr, width, data) ==
    IF InRam(paddr, width) THEN Some(W(zero_truncate(data, width))) ELSE None

\* vaddr_to_paddr, 218-227: the identity at each of the three levels
vaddr_to_paddr(pm, vaddr) == Some(vaddr)

\* The value of op.load.addr.  The record is a union (riscv.hh 505-540):
\* read while another member is active, load.addr is what that member left
\* in the first word: the address of a store, the cause of a trap, and for
\* a retire the byte rd followed by padding bytes, which hold anything.
LoadAddrOf(op, padding) ==
    CASE op.type = "load" -> op.load.addr
      [] op.type = "store" -> op.store.addr
      [] op.type = "trap" -> op.trap.cause
      [] op.type = "retire" -> W(op.retire.rd + 256 * padding)
      [] OTHER -> W(256 * padding)

\* vaddr_fetch_instruction, 245-269
vaddr_fetch_instruction(pm, op, padding) ==
    LET vaddr == op.pc
        paddr_opt == vaddr_to_paddr(pm, LoadAddrOf(op, padding))
        translate == << Access("translate", LoadAddrOf(op, padding), 0,
                               paddr_opt) >>
        instr_opt == ram_read_instr(paddr_opt.val)
        fetch == << Access("instr", paddr_opt.val, width_word, instr_opt) >>
    IN IF paddr_opt.has
       THEN IF instr_opt.has
            THEN [op |-> [op EXCEPT !.type = "fetch",
                                    !.instr = instr_opt.val],
                  bus |-> translate \o fetch]
            ELSE [op |-> [op EXCEPT !.type = "trap",
                                    !.trap = [cause |-> except_instr_fault,
                                              tval |-> vaddr]],
                  bus |-> translate \o fetch]
       ELSE [op |-> [op EXCEPT !.type = "trap",
                               !.trap = [cause |-> except_instr_page_fault,
                                         tval |-> vaddr]],
             bus |-> translate]

\* a paddr_load that goes to the MMIO agent first and to the RAM only if
\* the agent has no value
paddr_load_agent_first(op, data, attached, mmio) ==
    LET l == op.load
        ram == ram_read_data(l.addr, l.width, data)
        first == IF attached THEN mmio ELSE None
        data_opt == IF first.has THEN first ELSE ram
        value == IF l.sign_extend
                 THEN sign_extend(W(data_opt.val), l.width)
                 ELSE W(data_opt.val)
    IN [op |-> IF data_opt.has
               THEN [op EXCEPT !.type = "retire",
                               !.retire = [rd |-> l.rd, value |-> value]]
               ELSE [op EXCEPT !.type = "trap",
                               !.trap = [cause |-> except_load_fault,
                                         tval |-> l.addr]],
        bus |-> (IF attached
                 THEN << Access("mmio", l.addr, l.width, mmio) >>
                 ELSE << >>)
                \o (IF first.has THEN << >>
                    ELSE << Access("data", l.addr, l.width, ram) >>)]

\* paddr_load, 271-297, with the RAM on the data bus; attached says whether
\* mmio_bus is set, mmio is what the agent answers if it is asked
paddr_load_agent(op, data, attached, mmio) ==
    LET l == op.load
        ram == ram_read_data(l.addr, l.width, data)
        fallback == ~ram.has /\ attached
        data_opt == IF fallback THEN mmio ELSE ram
        value == IF l.sign_extend
                 THEN sign_extend(W(data_opt.val), l.width)
                 ELSE W(data_opt.val)
    IN [op |-> IF data_opt.has
               THEN [op EXCEPT !.type = "retire",
                               !.retire = [rd |-> l.rd, value |-> value]]
               ELSE [op EXCEPT !.type = "trap",
                               !.trap = [cause |-> except_load_fault,
                                         tval |-> l.addr]],
        bus |-> << Access("data", l.addr, l.width, ram) >>
                \o (IF fallback
                    THEN << Access("mmio", l.addr, l.width, mmio) >>
                    ELSE << >>)]

\* vaddr_load, 323-359
vaddr_load(pm, op, data, attached, mmio) ==
    LET l == op.load
        vaddr == l.addr
        paddr_opt == vaddr_to_paddr(pm, op.load.addr)
        translate == << Access("translate", op.load.addr, 0, paddr_opt) >>
        ram == ram_read_data(paddr_opt.val, l.width, data)
        fallback == ~ram.has /\ attached
        data_opt == IF fallback THEN mmio ELSE ram
        value == IF l.sign_extend
                 THEN sign_extend(W(data_opt.val), l.width)
                 ELSE W(data_opt.val)
    IN IF paddr_opt.has
       THEN [op |-> IF data_opt.has
                    THEN [op EXCEPT !.type = "retire",
                                    !.retire = [rd |-> l.rd,
                                                value |-> value]]
                    ELSE [op EXCEPT !.type = "trap",
                                    !.trap = [cause |-> except_load_fault,
                                              tval |-> vaddr]],
             bus |-> translate
                     \o << Access("data", paddr_opt.val, l.width, ram) >>
                     \o (IF fallback
                         THEN << Access("mmio", paddr_opt.val, l.width,
                                        mmio) >>
                         ELSE << >>)]
       ELSE [op |-> [op EXCEPT !.type = "trap",
                               !.trap = [cause |-> except_load_page_fault,
                                         tval |-> vaddr]],
             bus |-> translate]

\* the padding bytes of a record, as a multiple of 256: zero, or the bytes
\* that make the first word the base of the RAM
Paddings == {0, RamBase \div 256}

\* the pcs of the records: in the RAM, and right behind it
PrivPcs == {RamBase, RamBase + 4, RamBase + RamSize}

\* the records the host hands over: the retire of the instruction before,
\* with and without a destination register
RetiredRecords ==
    { [OpBlank EXCEPT !.type = "retire", !.pc = pc, !.next_pc = pc,
                      !.retire = [rd |-> rd, value |-> 0]] :
        pc \in PrivPcs, rd \in {0, 2} }

\* the loads the execute stage hands over
LoadRecords ==
    { [OpBlank EXCEPT !.type = "load", !.pc = RamBase,
                      !.next_pc = RamBase + 4,
                      !.load = [addr |-> addr, width |-> width,
                                sign_extend |-> sext, rd |-> rd]] :
        addr \in {RamBase + 8, ConsoleBase}, width \in {width_byte, width_half},
        sext \in BOOLEAN, rd \in {0, 2} }

\* what the MMIO agent answers to a read
MmioAnswers == {None, Some(65), Some(200)}

InitPriv ==
    /\ IoConstructed
    /\ DiffConstructed(TRUE, TRUE)
    /\ NoRings
    /\ NoMem
    /\ cpu_kind = "privilege_module"
    /\ gpr = [r \in 0..(NumGpr - 1) |-> 0]
    /\ privilege_module \in {pm_reset, Entered(priv_u, 0)}
    /\ exec_result \in RetiredRecords \cup LoadRecords
    /\ is_stopped = FALSE
    /\ last_trap = None
    /\ rv32 = Rv32Constructed
    /\ steps = 0
    /\ call = CallNone
    /\ taken = NoTrapTaken

\* privilege_module::paddr_load and vaddr_load on the record
PrivLoad(name, data, attached, mmio) ==
    /\ cpu_kind = "privilege_module"
    /\ steps < MaxSteps
    /\ exec_result.type = "load"
    /\ \E r \in {IF name = "paddr_load"
                  THEN paddr_load_agent(exec_result, data, attached, mmio)
                  ELSE vaddr_load(privilege_module, exec_result, data,
                                  attached, mmio)} :
          /\ exec_result' = r.op
          /\ call' = [CallNone EXCEPT !.op = name,
                                      !.record = exec_result,
                                      !.agent = attached,
                                      !.bus = r.bus]
    /\ steps' = steps + 1
    /\ UNCHANGED << cpu_kind, gpr, privilege_module, is_stopped, last_trap,
                    rv32, taken, ioVars, diffVars, ringVars, memVars >>

\* privilege_module::vaddr_fetch_instruction on the record
PrivVaddrFetch(padding) ==
    /\ cpu_kind = "privilege_module"
    /\ steps < MaxSteps
    /\ \E r \in {vaddr_fetch_instruction(privilege_module, exec_result,
                                         padding)} :
          /\ exec_result' = r.op
          /\ call' = [CallNone EXCEPT !.op = "vaddr_fetch_instruction",
                                      !.record = exec_result,
                                      !.bus = r.bus]
    /\ steps' = steps + 1
    /\ UNCHANGED << cpu_kind, gpr, privilege_module, is_stopped, last_trap,
                    rv32, taken, ioVars, diffVars, ringVars, memVars >>

NextPriv ==
    \/ \E padding \in Paddings : PrivVaddrFetch(padding)
    \/ \E data \in LoadData, attached \in BOOLEAN, mmio \in MmioAnswers :
          PrivLoad("paddr_load", data, attached, mmio)
    \/ \E data \in LoadData, attached \in BOOLEAN, mmio \in MmioAnswers :
          PrivLoad("vaddr_load", data, attached, mmio)

SpecPriv == InitPriv /\ [][NextPriv]_vars

(***************************************************************************)
(* Properties of the dispatcher                                            *)
(***************************************************************************)
\* the latest read took request number k and named the same (addr, width) as
\* the agent that presented k first
SameAsFirst(k) ==
    /\ lastRead.req_no = k
    /\ served[k].set
    /\ served[k].addr = lastRead.addr
    /\ served[k].width = lastRead.width

\* C1 as stated: whenever an agent presents request number k with the same
\* (addr, width) as the agent that presented k first, it receives the same
\* optional value, whatever the interleaving.
C1_SameValueAlways ==
    \A k \in 0..(MaxReq - 1) :
        SameAsFirst(k) => lastRead.ret = served[k].ret

\* C1 amended: an agent presenting request number k with the same
\* (addr, width) as the first presenter receives the same optional value
\* provided entry k is still in the ring (the request is not an underflow).
C1_SameValueWhileInRing ==
    \A k \in 0..(MaxReq - 1) :
        (SameAsFirst(k) /\ lastRead.kind # "underflow")
            => lastRead.ret = served[k].ret

\* a later agent was served a value from the ring
C1_Witness ==
    /\ lastRead.kind = "cached"
    /\ lastRead.ret.has
    /\ SameAsFirst(lastRead.req_no)

\* request k named a device register that resolves to a backend operation
BackendRequest(k) ==
    /\ served[k].set
    /\ DeviceOf(served[k].addr) # {}
    /\ resolve_read(served[k].addr - ConsoleBase, served[k].width)
           \in {"read", "ioctl_get"}

\* C2: for each read request number the device backend is invoked exactly
\* once, by the first agent presenting it; later agents presenting the same
\* number cause no frontend or backend call.
C2_BackendExactlyOnce ==
    \A k \in 0..(MaxReq - 1) :
        /\ BackendRequest(k) => beCalls[k] = 1
        /\ beCalls[k] <= 1
        /\ feCalls[k] <= 1

(***************************************************************************)
(* Properties of the differential tester                                   *)
(***************************************************************************)
\* C3: once the commit-event vectors of DUT and REF collected in one cycle
\* differed in length or in an element, the error flag is true and
\* stopped() returns true, in that state and in every later one.
C3_MismatchLatched ==
    cycleDiffered => (difftest_error /\ difftest_stopped)

\* a cycle with differing vectors has finished and the tester is idle again
C3_Witness ==
    /\ cycleDiffered
    /\ difftest_error
    /\ diff_pc = "idle"
    /\ has_buffer.dut /\ has_buffer.ref

(***************************************************************************)
(* Properties of the CPUs                                                  *)
(***************************************************************************)
Staged == cpu_kind = "riscv_cpu_system"
Instructed == call.op = "next_instruction"

EventRank(type) ==
    CASE type = "issue" -> 0
      [] type \in {"load", "store", "trap_ret"} -> 1
      [] type = "trap" -> 2
      [] type = "reg_write" -> 3

\* the events come in the order Issue, Load/Store/TrapRet, Trap, RegWrite,
\* with at most one of each of the four
InOrder(evs) ==
    \A i, j \in 1..Len(evs) :
        i < j => EventRank(evs[i].type) < EventRank(evs[j].type)

HasType(evs, type) == \E i \in 1..Len(evs) : evs[i].type = type

\* C4 as stated: within one instruction a CPU appends events only in the
\* order Issue, then at most one of Load/Store/TrapRet, then at most one
\* Trap, then at most one RegWrite, and no event type appears twice.
C4_EventOrder == Instructed => InOrder(call.events)

\* C4 amended: the events of one instruction are, in this order, at most one
\* Issue, at most one of Load/Store/TrapRet, and then either the Trap of an
\* exception, after which no RegWrite follows, or at most one RegWrite; only
\* the rv32i_cpu_system logs the Trap of an interrupt it takes after the
\* instruction, and it logs it last, after the RegWrite.
C4_EventOrderUpToInterrupt ==
    Instructed =>
        LET evs == call.events
            body == IF call.interrupted THEN SubSeq(evs, 1, Len(evs) - 1)
                    ELSE evs
        IN /\ InOrder(body)
           /\ HasType(body, "trap") => ~HasType(body, "reg_write")
           /\ call.interrupted =>
                 /\ cpu_kind = "rv32i_cpu_system"
                 /\ evs[Len(evs)].type = "trap"
                 /\ evs[Len(evs)].val1 >= intr_mask
                 /\ ~HasType(body, "trap")

\* the rv32i_cpu_system wrote a register and then took an interrupt
C4_Witness ==
    /\ Instructed
    /\ call.interrupted
    /\ Len(call.events) = 3
    /\ call.events[2].type = "reg_write"

StoppedAtBreakpoint ==
    call.about.raised /\ call.about.cause = except_breakpoint

\* C5 as stated: every call to next_instruction finishes with the staged
\* operation record in stage Retire.
C5_EndsInRetire == (Staged /\ Instructed) => exec_result.type = "retire"

\* C5 amended: every call to next_instruction that does not execute an
\* ebreak finishes with the record in stage Retire; a call that executes an
\* ebreak returns with the record in stage Trap and the CPU stopped.
C5_EndsInRetireUnlessBreakpoint ==
    (Staged /\ Instructed) =>
        IF StoppedAtBreakpoint
        THEN exec_result.type = "trap" /\ is_stopped
        ELSE exec_result.type = "retire"

\* a call that delivered an exception ended in Retire
C5_Witness ==
    /\ Staged /\ Instructed
    /\ call.delivered = "exception"
    /\ exec_result.type = "retire"

\* C6: after every retire general-purpose register 0 holds 0; a retire
\* whose destination is register 0 is discarded.
C6_ZeroRegister == Staged => gpr[0] = 0

\* addi x0, x0, 1 retired with a value for register 0
C6_Witness ==
    /\ Staged /\ Instructed
    /\ call.about.instr = Instr(16, 19)
    /\ exec_result.type = "retire"
    /\ exec_result.retire.rd = 0
    /\ exec_result.retire.value = 1

EpcOfTarget ==
    IF call.target = priv_m THEN privilege_module.mepc
    ELSE privilege_module.sepc

\* C7: when an exception is delivered, the epc CSR of the target level holds
\* the pc of the trapping instruction; when an interrupt is delivered, it
\* holds the next_pc of the retire that preceded the interrupt.
C7_EpcOfTrap ==
    (Staged /\ Instructed) =>
        /\ call.delivered = "exception" => EpcOfTarget = call.about.pc
        /\ call.delivered = "interrupt" => EpcOfTarget = call.retire_next_pc

\* an interrupt was delivered after an instruction that retired
C7_Witness ==
    /\ Staged /\ Instructed
    /\ call.delivered = "interrupt"
    /\ call.retire_next_pc # call.about.pc
    /\ EpcOfTarget = call.retire_next_pc

\* C8: if an instruction raises a synchronous exception while an interrupt
\* is pending and enabled, the exception is the trap delivered for that
\* instruction and the interrupt is not taken in that step.  (An ebreak
\* stops the CPU and delivers nothing; it is left out.)
C8_ExceptionBeforeInterrupt ==
    (Staged /\ Instructed /\ call.about.raised /\ ~StoppedAtBreakpoint
     /\ call.deliverable_before)
        => call.delivered = "exception"

\* C9: a CSR operation that fails the read or the write access check ends
\* as Trap{IllegalInstr, tval = instr} and not as a retire.
C9_CsrViolationTraps ==
    (Staged /\ Instructed /\ call.about.csr_violation) =>
        /\ call.delivered = "exception"
        /\ last_trap = Some(except_illegal_instr)
        /\ \E i \in 1..Len(call.events) :
              call.events[i] = Event("trap", call.about.pc,
                                     except_illegal_instr,
                                     InstrWord(call.about.instr))

\* the state before the trap is back, with MPIE = 1 and MPP = U
Restored ==
    /\ privilege_module.priv_level = call.after.priv_level
    /\ privilege_module.status.mie = call.after.mie
    /\ exec_result.pc = call.after.pc
    /\ privilege_module.status.mpie
    /\ privilege_module.status.mpp = priv_u

\* the call executed mret as the first instruction after an exception
MretAfterException ==
    Staged /\ Instructed /\ call.is_mret /\ call.after.valid

\* C10 as stated: from any state in which an exception is taken, executing
\* mret as the first instruction after the trap restores the privilege
\* level, MIE and PC that held before the trap, leaving MPIE = 1, MPP = U.
C10_MretRestores == MretAfterException => Restored

\* C10 amended: the same for an exception delivered to M-mode, provided no
\* interrupt is deliverable when the mret retires (it is taken in the same
\* call); after an exception delegated to S-mode mret is an illegal
\* instruction.
C10_MretRestoresFromM ==
    (MretAfterException /\ call.after.target = priv_m
     /\ call.delivered # "interrupt") => Restored

\* mret returned from an exception taken with MIE set
C10_Witness ==
    /\ MretAfterException
    /\ call.after.target = priv_m
    /\ call.after.mie
    /\ call.delivered = "none"
    /\ Restored

(***************************************************************************)
(* Properties of the ring buffer                                           *)
(***************************************************************************)
Popped == ring_last.op = "pop_back"
Pushed == ring_last.op = "push_back" /\ ~ring_crashed

\* C11: in every reachable state of a ring buffer, under any sequence of
\* construction, push_back, pop_back, copy, move and copy assignment,
\* size() = last_index - first_index is at most capacity() (and, size_t
\* being unsigned, first_index is never beyond last_index).
C11_SizeWithinCapacity ==
    \A r \in RingNames :
        ring_alive[r] =>
            /\ ring[r].first_index <= ring[r].last_index
            /\ RingSize(ring[r]) <= RingCapacity(ring[r])

\* a push_back onto a full ring dropped the oldest element
C11_Witness ==
    /\ Pushed
    /\ ring[ring_last.obj].max_size > 0
    /\ RingSize(ring_last.before[ring_last.obj]) = ring[ring_last.obj].max_size
    /\ RingSize(ring[ring_last.obj]) = ring[ring_last.obj].max_size
    /\ ring[ring_last.obj].first_index =
          ring_last.before[ring_last.obj].first_index + 1

\* C13 as stated: first_index and last_index of a ring buffer never
\* decrease across any sequence of operations on the buffer.
C13_IndicesNeverDecrease ==
    \A r \in RingNames :
        ring_last.alive[r] =>
            /\ ring_last.before[r].first_index <= ring[r].first_index
            /\ ring_last.before[r].last_index <= ring[r].last_index

\* C13 amended: push_back increases last_index by one and never decreases
\* first_index; pop_back leaves first_index alone and decreases last_index
\* by one unless the ring is empty; a copy assignment gives the target the
\* indices of the source, a move construction sets the indices of the
\* source to 0; no operation changes the indices of any other object.
C13_IndicesPerOperation ==
    LET r == ring_last.obj
        o == ring_last.other
        was == ring_last.before
    IN /\ Pushed =>
             /\ ring[r].last_index = was[r].last_index + 1
             /\ ring[r].first_index >= was[r].first_index
       /\ Popped =>
             /\ ring[r].first_index = was[r].first_index
             /\ ring[r].last_index =
                   IF was[r].last_index > was[r].first_index
                   THEN was[r].last_index - 1 ELSE was[r].last_index
             /\ ring[r].last_index >= ring[r].first_index
       /\ ring_last.op = "assign" =>
             /\ ring[r].first_index = was[o].first_index
             /\ ring[r].last_index = was[o].last_index
       /\ ring_last.op = "move" =>
             /\ ring[o].first_index = 0 /\ ring[o].last_index = 0
             /\ ring[r].first_index = was[o].first_index
             /\ ring[r].last_index = was[o].last_index
       /\ \A x \in RingNames :
             (ring_last.alive[x] /\ x # r
              /\ ~(ring_last.op = "move" /\ x = o)) =>
                 /\ ring[x].first_index = was[x].first_index
                 /\ ring[x].last_index = was[x].last_index

\* a pop_back took last_index back by one on a ring that had wrapped
C13_Witness ==
    /\ Popped
    /\ ring_last.before[ring_last.obj].first_index > 0
    /\ ring[ring_last.obj].last_index =
          ring_last.before[ring_last.obj].last_index - 1

\* C14: after k push_back calls on a fresh ring buffer of capacity N,
\* last_index = k, first_index = max(0, k - N), and for every i in
\* [first_index, last_index) the element at index i is the i-th pushed one.
C14_PushedElements ==
    \A r \in RingNames :
        (ring_alive[r] /\ ring_pushed[r].fresh) =>
            LET k == Len(ring_pushed[r].elems)
                N == ring[r].max_size
            IN /\ ring[r].last_index = k
               /\ ring[r].first_index = IF k > N THEN k - N ELSE 0
               /\ \A i \in ring[r].first_index..(ring[r].last_index - 1) :
                     RingAt(ring[r], i) = ring_pushed[r].elems[i + 1]

\* capacity 2, four elements pushed, not all the same: indices 2 and 3 are
\* held
C14_Witness ==
    \E r \in RingNames :
        /\ ring_alive[r] /\ ring_pushed[r].fresh
        /\ ring[r].max_size = 2
        /\ Len(ring_pushed[r].elems) = 4
        /\ ring[r].first_index = 2
        /\ RingAt(ring[r], 2) # RingAt(ring[r], 3)

\* C12: the ring buffer never yields an element for an index i with
\* i < first_index or i >= last_index: every element access made by
\* mmio_agent::read is confined to first_index <= i < last_index.
C12_AccessWithinWindow ==
    \A i \in lastRead.accessed :
        lastRead.first_index <= i /\ i < lastRead.last_index

(***************************************************************************)
(* Properties of the differential tester's error event, stopped() and      *)
(* accessors                                                               *)
(***************************************************************************)
DiffErrorLogged ==
    \E i \in difftest_event_buffer.first_index
                ..(difftest_event_buffer.last_index - 1) :
        LET e == RingAt(difftest_event_buffer, i)
        IN e.type = "diff_error" /\ e.val1 = offending

\* C15: when the tester has detected a commit mismatch in a cycle, its event
\* buffer holds a DiffError event whose v1 is the type of the offending
\* event.
C15_DiffErrorEvent ==
    (diff_pc = "idle" /\ offending # "none") => DiffErrorLogged

OneSidedStop ==
    ~difftest_error /\ child_stopped.dut # child_stopped.ref

\* C16 as stated: stopped() is true if and only if a diff error has been
\* latched or both DUT and REF are stopped.
C16_StoppedIffBoth ==
    difftest_stopped
        <=> (difftest_error \/ (child_stopped.dut /\ child_stopped.ref))

\* C16 amended: stopped() is true if and only if a diff error has been
\* latched or at least one of DUT and REF is stopped, and it logs a warning
\* exactly when no error is latched and exactly one child is stopped.
C16_StoppedIffEither ==
    /\ difftest_stopped
          <=> (difftest_error \/ child_stopped.dut \/ child_stopped.ref)
    /\ (difftest_stopped_warning # "none") <=> OneSidedStop

C16_Witness ==
    /\ diff_pc = "idle"
    /\ OneSidedStop
    /\ child_stopped.dut
    /\ difftest_stopped
    /\ difftest_stopped_warning = "DUT has stopped but REF has not"

\* C17: between two cycles, get_pc and get_trap of the tester return what
\* get_pc and get_trap of the DUT return.
C17_AccessorsOfDut ==
    diff_pc = "idle"
        => /\ difftest_get_pc = child_pc.dut
           /\ difftest_get_trap = child_trap.dut

(***************************************************************************)
(* Properties of ebreak, get_trap and reset                                *)
(***************************************************************************)
\* the step is a call of next_instruction that executes an ebreak
EbreakStep ==
    /\ steps' = steps + 1
    /\ call'.op = "next_instruction"
    /\ call'.about.instr = Instr(16, 115)
    /\ call'.about.raised
    /\ call'.about.cause = except_breakpoint

\* C18: a call of next_instruction that executes an ebreak stops the CPU,
\* logs no trap event, changes no CSR and not the privilege level, and
\* leaves the pc at the address of the ebreak.
C18_EbreakHalts ==
    [][EbreakStep =>
          /\ ~HasType(call'.events, "trap")
          /\ cpu_kind = "riscv_cpu_system" =>
                /\ is_stopped'
                /\ privilege_module' = privilege_module
                /\ exec_result'.pc = exec_result.pc
          /\ cpu_kind = "rv32i_cpu_system" =>
                /\ rv32'.is_stopped
                /\ rv32'.csr = rv32.csr
                /\ rv32'.priv_level = rv32.priv_level
                /\ rv32'.pc = rv32.pc]_vars

\* the cause register of the level the latest call delivered a trap to
DeliveredCause ==
    IF call.target = priv_m THEN privilege_module.mcause
    ELSE privilege_module.scause

\* C19: after a call of next_instruction, get_trap() is the cause of the
\* trap (the exception of stage Trap) delivered during that instruction,
\* and none if the instruction retired without a trap being delivered,
\* whether or not an interrupt was taken after it.
C19_GetTrapOfLastInstruction ==
    (Staged /\ Instructed) =>
        /\ call.delivered = "exception" =>
              /\ get_trap = Some(DeliveredCause)
              /\ get_trap = Some(call.events[Len(call.events)].val1)
        /\ (call.delivered # "exception" /\ exec_result.type = "retire") =>
              get_trap = None

\* a trap was delivered by the call before, and the latest call retired an
\* instruction without one
C19_Witness ==
    /\ Staged /\ Instructed
    /\ call.after.valid
    /\ call.delivered = "none"
    /\ exec_result.type = "retire"
    /\ get_trap = None

\* C20: after reset(init_pc) all registers are zero, every CSR has its
\* reset value, the pc is init_pc, the CPU is not stopped and get_trap()
\* is none.
C20_ResetState ==
    call.op = "reset" =>
        /\ Staged =>
              /\ \A r \in 0..(NumGpr - 1) : gpr[r] = 0
              /\ privilege_module = pm_reset
              /\ exec_result.pc = RamBase
              /\ ~is_stopped
              /\ get_trap = None
        /\ cpu_kind = "rv32i_cpu_system" =>
              /\ \A r \in 0..(NumGpr - 1) : rv32.gpr[r] = 0
              /\ \A i \in 1..Len(csr_list) :
                    csr_read(rv32.csr, csr_list[i].addr)
                        = csr_list[i].init_value
              /\ rv32.pc = RamBase
              /\ ~rv32.is_stopped
              /\ rv32.next_trap = None

(***************************************************************************)
(* Properties of the RAM                                                   *)
(***************************************************************************)
\* the latest call read back what the latest write of the same place wrote
ReadBack ==
    /\ mem_last.op = "peek"
    /\ mem_set.valid
    /\ mem_last.addr = mem_set.addr
    /\ mem_last.width = mem_set.width
    /\ mem_last.little_endian = mem_set.little_endian
    /\ ~out_of_bound_exact(memory, mem_set.addr, mem_set.width)

\* C21: reading at the address and width of the latest write, inside the
\* RAM, returns the written value modulo 2^(8 * width).
C21_WriteThenRead ==
    ReadBack => mem_last.ret = Some(Truncated(mem_set.value, mem_set.width))


(***************************************************************************)
(* Properties of the dispatcher's error paths, of its write path and of    *)
(* the agents' requests within a cycle                                     *)
(***************************************************************************)
\* the latest read, or write, presented a request number the ring held,
\* with a tuple that is not the one recorded for it
ReadMismatched ==
    /\ lastRead.req_no >= lastRead.first_index
    /\ lastRead.req_no < lastRead.last_index
    /\ << served[lastRead.req_no].addr, served[lastRead.req_no].width >>
          # << lastRead.addr, lastRead.width >>
WriteMismatched ==
    /\ lastWrite.req_no >= lastWrite.first_index
    /\ lastWrite.req_no < lastWrite.last_index
    /\ << wserved[lastWrite.req_no].addr, wserved[lastWrite.req_no].width,
          wserved[lastWrite.req_no].data >>
          # << lastWrite.addr, lastWrite.width, lastWrite.data >>

\* C22: a request number held in the ring (first_index <= req_no <
\* last_index) presented with a tuple different from the cached one returns
\* none (read) or false (write) and no device is consulted.
C22_MismatchRejected ==
    /\ ReadMismatched =>
          /\ lastRead.ret = None
          /\ lastRead.frontend = 0 /\ lastRead.backend = 0
    /\ WriteMismatched =>
          /\ lastWrite.ret = FALSE
          /\ lastWrite.frontend = 0 /\ lastWrite.put = 0

\* a write that the device accepted for the first agent is presented by
\* another agent with other data
C22_Witness ==
    /\ WriteMismatched
    /\ wserved[lastWrite.req_no].ret
    /\ wserved[lastWrite.req_no].addr = lastWrite.addr
    /\ resolve_write(lastWrite.addr - ConsoleBase, lastWrite.width) = "write"

\* the latest read, or write, presented a request number below first_index
ReadUnderflowed ==
    lastRead.req_no >= 0 /\ lastRead.req_no < lastRead.first_index
WriteUnderflowed ==
    lastWrite.req_no >= 0 /\ lastWrite.req_no < lastWrite.first_index

\* C23: a request whose number is below first_index of the request ring
\* returns none (read) or false (write) and no device is invoked.
C23_UnderflowRejected ==
    /\ ReadUnderflowed =>
          /\ lastRead.ret = None
          /\ lastRead.frontend = 0 /\ lastRead.backend = 0
    /\ WriteUnderflowed =>
          /\ lastWrite.ret = FALSE
          /\ lastWrite.frontend = 0 /\ lastWrite.put = 0

\* a byte for TX is presented under a number the write ring has dropped
C23_Witness ==
    /\ WriteUnderflowed
    /\ DeviceOf(lastWrite.addr) # {}
    /\ resolve_write(lastWrite.addr - ConsoleBase, lastWrite.width) = "write"

\* the latest write took request number k and named the same
\* (addr, width, data) as the agent that presented k first
SameWriteAsFirst(k) ==
    /\ lastWrite.req_no = k
    /\ wserved[k].set
    /\ << wserved[k].addr, wserved[k].width, wserved[k].data >>
          = << lastWrite.addr, lastWrite.width, lastWrite.data >>

\* the first presentation of a write request number makes one frontend
\* write if a device decodes the address and records the tuple; no request
\* number has the frontend written twice
WrittenOnce ==
    /\ \A k \in 0..(MaxReq - 1) :
          /\ (wserved[k].set /\ DeviceOf(wserved[k].addr) # {})
                => feWrites[k] = 1
          /\ feWrites[k] <= 1
    /\ (lastWrite.req_no >= 0 /\ lastWrite.req_no = lastWrite.last_index) =>
          RingAt(write_request_buffer, lastWrite.req_no)
             = [addr |-> lastWrite.addr, width |-> lastWrite.width,
                data |-> lastWrite.data, result |-> lastWrite.ret]

\* C24 as stated: the first agent presenting write request number k causes
\* one frontend write and records (addr, width, data, success); any agent
\* later presenting k with the same tuple receives the recorded success and
\* the device is not written again.
C24_WriteOnceAlways ==
    /\ WrittenOnce
    /\ \A k \in 0..(MaxReq - 1) :
          SameWriteAsFirst(k) => lastWrite.ret = wserved[k].ret

\* C24 amended: the later agent receives the recorded success provided
\* entry k is still in the write ring (k >= first_index).
C24_WriteOnceWhileInRing ==
    /\ WrittenOnce
    /\ \A k \in 0..(MaxReq - 1) :
          (SameWriteAsFirst(k) /\ k >= lastWrite.first_index)
              => lastWrite.ret = wserved[k].ret

\* a later agent was given the success recorded for a byte sent to TX
C24_Witness ==
    /\ lastWrite.req_no >= lastWrite.first_index
    /\ lastWrite.req_no < lastWrite.last_index
    /\ SameWriteAsFirst(lastWrite.req_no)
    /\ lastWrite.ret
    /\ feWrites[lastWrite.req_no] = 1

\* C25: an agent that, before its next_cycle, repeats a read with the
\* (addr, width), or a write with the (addr, width, data), of a request it
\* already issued in the cycle is given the result of that first request
\* and takes no new request number.
C25_RepeatIgnored ==
    repeated.is => (repeated.same /\ repeated.req_no = -1)


(***************************************************************************)
(* Properties of the tester's stepping                                     *)
(***************************************************************************)
\* the cycle stepped the DUT once before any step of REF, stepped REF only
\* while REF had fewer commit events than the DUT and was not stopped, and
\* did not leave the loop in such a state
SteppedInOrder ==
    stepping.dut = 1 /\ ~stepping.late /\ ~stepping.short

CsrOp == call.about.csr

\* the wpri_mask of the CSR, rv32i_cpu_system.cc 7-19
WpriMask(addr) == csr_list[CsrIndex(addr)].wpri_mask

\* the word the operation asks to have in the CSR
CsrNewValue(o) ==
    IF o.write THEN o.value
    ELSE IF o.set THEN BitOr(o.old, o.value)
    ELSE BitClear(o.old, o.value)

\* the call ran a permitted write, set or clear of a CSR that has a
\* wpri_mask; the mstatus of the riscv_cpu_system is a set of flags, not a
\* cell, and is left out
MaskedCsrWrite ==
    /\ Instructed /\ CsrOp.is /\ CsrOp.allowed
    /\ CsrOp.write \/ CsrOp.set \/ CsrOp.clear
    /\ CsrIndex(CsrOp.addr) # 0
    /\ ~(Staged /\ CsrOp.addr = csr_addr_mstatus)

\* C27: every instruction-level CSR write stores
\* (old & ~mask) | (new & mask) for the wpri_mask of the CSR, so the bits
\* outside the mask keep their value; with mask 0 the CSR is unchanged, the
\* read returns the current value and the operation still succeeds.
C27_MaskedWrite ==
    MaskedCsrWrite =>
        /\ CsrOp.stored =
               BitOr(BitClear(CsrOp.old, WpriMask(CsrOp.addr)),
                     BitAnd(CsrNewValue(CsrOp), WpriMask(CsrOp.addr)))
        /\ WpriMask(CsrOp.addr) = 0 =>
               /\ CsrOp.stored = CsrOp.old
               /\ CsrOp.rd # 0 => CsrOp.read = CsrOp.old
               /\ ~CsrOp.trapped

\* C28: a CSR operation addressing a CSR that the implementation does not
\* define ends as an IllegalInstr trap, not as a retire.
C28_UndefinedCsrTraps ==
    (Instructed /\ CsrOp.is /\ ~CsrOp.defined) =>
        CsrOp.trapped

\* the CSR belongs to the machine level: bits [9:8] of its address are 3
MachineLevelCsr(addr) == (addr \div 256) % 4 = 3

\* C40: while the current privilege level is U or S, no CSR instruction
\* changes the value of a machine-level CSR (address bits [9:8] = 3).
C40_MachineCsrProtected ==
    (Instructed /\ CsrOp.is /\ CsrOp.level \in {priv_u, priv_s}
     /\ MachineLevelCsr(CsrOp.addr))
        => CsrOp.stored = CsrOp.old

(***************************************************************************)
(* Properties of the trap delivery                                         *)
(***************************************************************************)
\* the privilege module as the instruction's own stages left it, right
\* before handle_interrupt or handle_exception
Before == call.about.pm

\* the instruction ended as a retire, not as a trap
NonTrapRetire == Staged /\ Instructed /\ call.about.retired

MPendingEnabled == BitAnd(Before.mie, Before.mip)
SPendingEnabled == BitAnd(Before.sie, Before.sip)

\* the privilege module as the call left it
After == call.pm_after

\* the privilege module after an interrupt was delivered to M, to S
InterruptTakenToM ==
    [Before EXCEPT !.mcause = BitOr(LowestBit(MPendingEnabled), intr_mask),
                   !.mtval = 0,
                   !.mepc = call.retire_next_pc,
                   !.status.mpp = Before.priv_level,
                   !.status.mpie = Before.status.mie,
                   !.status.mie = FALSE,
                   !.priv_level = priv_m]
InterruptTakenToS ==
    [Before EXCEPT !.scause = BitOr(LowestBit(SPendingEnabled), intr_mask),
                   !.stval = 0,
                   !.sepc = call.retire_next_pc,
                   !.status.spp = (Before.priv_level = priv_s),
                   !.status.spie = Before.status.sie,
                   !.status.sie = FALSE,
                   !.priv_level = priv_s]

\* C29: after a non-trap retire, an interrupt is delivered to M iff
\* (mie & mip) # 0 and (MIE is set or privilege < M); otherwise to S iff
\* (sie & sip) # 0, privilege # M and (SIE is set or privilege = U);
\* otherwise nothing changes; the cause is the lowest set bit of the
\* selected pending-and-enabled set.
C29_InterruptSelection ==
    NonTrapRetire =>
        IF MPendingEnabled # 0
           /\ (Before.status.mie \/ Before.priv_level < priv_m)
        THEN After = InterruptTakenToM
        ELSE IF SPendingEnabled # 0 /\ Before.priv_level # priv_m
                /\ (Before.status.sie \/ Before.priv_level = priv_u)
        THEN After = InterruptTakenToS
        ELSE /\ After = Before
             /\ exec_result.pc = call.retire_next_pc

\* an interrupt went to S with the software and the timer interrupt both
\* pending and enabled: the cause is the software interrupt, the lower bit
C29_Witness ==
    /\ NonTrapRetire
    /\ MPendingEnabled = 0
    /\ SPendingEnabled = 34
    /\ Before.priv_level = priv_u
    /\ After = InterruptTakenToS
    /\ After.priv_level = priv_s
    /\ After.scause = 1 + intr_mask

\* the instruction ended as a trap that handle_exception delivered (a
\* breakpoint stops the CPU before the delivery)
ExceptionTaken ==
    Staged /\ Instructed /\ ~call.about.retired /\ ~StoppedAtBreakpoint

\* the exception was delivered to S, to M: the level entered, and the cause
\* and the pc saved in the registers of that level only
ExceptionDeliveredToS ==
    /\ After.priv_level = priv_s
    /\ After.scause = call.about.cause
    /\ After.sepc = call.about.pc
    /\ After.status.spp = (Before.priv_level = priv_s)
    /\ After.mcause = Before.mcause /\ After.mepc = Before.mepc
ExceptionDeliveredToM ==
    /\ After.priv_level = priv_m
    /\ After.mcause = call.about.cause
    /\ After.mepc = call.about.pc
    /\ After.status.mpp = Before.priv_level
    /\ After.scause = Before.scause /\ After.sepc = Before.sepc

\* medeleg delegates the cause and the CPU is below M
DelegatedBelowM ==
    Before.priv_level # priv_m /\ Bit(Before.medeleg, call.about.cause) = 1

\* C30: an exception is delivered to S only if the current privilege is not
\* M and bit `cause` of medeleg is set; in every other case, in particular
\* for every exception raised in M, it is delivered to M.
C30_ExceptionDelegation ==
    ExceptionTaken =>
        /\ ExceptionDeliveredToS => DelegatedBelowM
        /\ ~DelegatedBelowM => ExceptionDeliveredToM
        /\ Before.priv_level = priv_m => ExceptionDeliveredToM

\* an environment call from U, delegated by medeleg, was delivered to S
C30_Witness ==
    /\ ExceptionTaken
    /\ Before.priv_level = priv_u
    /\ call.about.cause = except_env_call_u
    /\ DelegatedBelowM
    /\ ExceptionDeliveredToS

(***************************************************************************)
(* Properties of the memory stages                                         *)
(***************************************************************************)
\* the store of the latest instruction
StoreOp == call.about.store

\* C31: the Store record produced by executing a store instruction carries
\* data already truncated to the store width, so the value handed to data
\* memory or to the MMIO agent has no bit set above bit 8 * width - 1.
C31_StoreDataTruncated ==
    (Instructed /\ StoreOp.is) =>
        /\ StoreOp.data < 2 ^ (8 * StoreOp.width)
        /\ StoreOp.handed < 2 ^ (8 * StoreOp.width)

\* the call fetched at a pc that is not a multiple of 4
MisalignedFetch == Instructed /\ call.about.pc % 4 # 0

\* C32: a fetch at a misaligned PC raises the InstrAddrMisaligned exception
\* in the fetch step instead of executing the word read at that address.
C32_MisalignedFetchTraps ==
    MisalignedFetch =>
        /\ call.about.raised
        /\ call.about.cause = except_instr_misalign
        /\ ~HasType(call.events, "issue")

\* the call was vaddr_fetch_instruction, on the record call.record
VaddrFetched == call.op = "vaddr_fetch_instruction"

\* C33: vaddr_fetch translates the record's pc and reads the instruction
\* word at the translated pc; a translation failure yields InstrPageFault
\* and a memory failure yields InstrAccessFault.
C33_VaddrFetch ==
    VaddrFetched =>
        /\ call.bus[1].bus = "translate"
        /\ call.bus[1].addr = call.record.pc
        /\ IF ~call.bus[1].result.has
           THEN /\ exec_result.type = "trap"
                /\ exec_result.trap.cause = except_instr_page_fault
           ELSE /\ Len(call.bus) = 2
                /\ call.bus[2].bus = "instr"
                /\ call.bus[2].addr = call.bus[1].result.val
                /\ IF call.bus[2].result.has
                   THEN /\ exec_result.type = "fetch"
                        /\ exec_result.instr = call.bus[2].result.val
                   ELSE /\ exec_result.type = "trap"
                        /\ exec_result.trap.cause = except_instr_fault

\* the call was a load, on the record call.record
Loaded == call.op \in {"paddr_load", "vaddr_load"}

\* the reads the load made, in order, and the optional it ended with
LoadReads == SelectSeq(call.bus, LAMBDA a : a.bus # "translate")
LoadFinal == LoadReads[Len(LoadReads)].result

\* v is the width-byte value u extended with its sign bit to the word
SignExtends(v, u, width) ==
    /\ v % 2 ^ (8 * width) = u % 2 ^ (8 * width)
    /\ v \div 2 ^ (8 * width) =
          IF Bit(u, 8 * width - 1) = 1 THEN 2 ^ (XLEN - 8 * width) - 1 ELSE 0

\* C34: a load consults data memory first and goes to the MMIO agent only
\* if memory returned none and an agent is attached; if a value is finally
\* obtained the record becomes Retire{rd = load.rd, value} (sign-extended
\* when requested), otherwise Trap{LoadAccessFault, tval = addr}.
C34_LoadOrder ==
    Loaded =>
        /\ Len(LoadReads) \in {1, 2}
        /\ LoadReads[1].bus = "data"
        /\ LoadReads[1].addr = call.record.load.addr
        /\ LoadReads[1].width = call.record.load.width
        /\ Len(LoadReads) = 2 <=> (~LoadReads[1].result.has /\ call.agent)
        /\ Len(LoadReads) = 2 =>
              /\ LoadReads[2].bus = "mmio"
              /\ LoadReads[2].addr = call.record.load.addr
              /\ LoadReads[2].width = call.record.load.width
        /\ IF LoadFinal.has
           THEN /\ exec_result.type = "retire"
                /\ exec_result.retire.rd = call.record.load.rd
                /\ IF call.record.load.sign_extend
                   THEN SignExtends(exec_result.retire.value, LoadFinal.val,
                                    call.record.load.width)
                   ELSE exec_result.retire.value = LoadFinal.val
           ELSE /\ exec_result.type = "trap"
                /\ exec_result.trap.cause = except_load_fault
                /\ exec_result.trap.tval = call.record.load.addr

\* a sign-extending byte load of the console found no RAM and got 200 from
\* the attached agent: x2 is to receive 0xffc8
C34_Witness ==
    /\ Loaded
    /\ call.agent
    /\ call.record.load.sign_extend
    /\ Len(LoadReads) = 2
    /\ ~LoadReads[1].result.has
    /\ LoadReads[2] = Access("mmio", ConsoleBase, width_byte, Some(200))
    /\ exec_result.type = "retire"
    /\ exec_result.retire = [rd |-> 2, value |-> 65480]

(***************************************************************************)
(* Properties of the tester with a missing event buffer, with two equal    *)
(* CPUs, and of its pulls                                                  *)
(***************************************************************************)
\* C35: if the event buffer of the DUT or of the REF is absent, the
\* tester's next_cycle reports an error by latching the diff error, and the
\* host process is not terminated: the call returns and the tester is idle
\* again, with the error set.
C35_NoBufferLatches ==
    [][(diff_pc = "idle" /\ (~has_buffer.dut \/ ~has_buffer.ref))
           => (difftest_error' /\ diff_pc' = "idle"
               /\ stepping'.dut = 0 /\ stepping'.ref = 0)]_vars

\* next_cycle returned on a tester whose REF has no event buffer
C35_Witness ==
    /\ has_buffer.dut /\ ~has_buffer.ref
    /\ stepping.ran
    /\ difftest_error
    /\ diff_pc = "idle"

\* C37: every index at which the tester reads a child's event buffer lies
\* in [first_index, last_index) of that buffer at the time of the read,
\* however many events the child appended since the previous pull: in the
\* pull after the DUT's step and in the pull after each step of the REF.
C37_PullsWithinWindow ==
    [][/\ (diff_pc = "idle" /\ diff_pc' = "ref_loop")
          => \A i \in PullReads(dut_event_buffer', dut_buffer_index) :
                /\ dut_event_buffer'.first_index <= i
                /\ i < dut_event_buffer'.last_index
       /\ (diff_pc = "ref_loop" /\ stepping'.ref = stepping.ref + 1)
          => \A i \in PullReads(ref_event_buffer', ref_buffer_index) :
                /\ ref_event_buffer'.first_index <= i
                /\ i < ref_event_buffer'.last_index]_vars

\* the calls of next_cycle that are in the loop of line 166, and the two
\* conditions that end it
InRefLoop == diff_pc = "ref_loop"
RefHasEnough == Len(ref_events) >= Len(dut_events)
RefStopped == child_stopped.ref

\* C38 as stated: every call of next_cycle terminates, i.e. a call that is
\* in the loop that steps the REF returns, for every program of the REF and
\* every number of DUT events.  (A behaviour in which the REF neither stops
\* nor logs a commit event stays in the loop: its steps that log nothing
\* leave every field as it was and are repeated without end.)
C38_NextCycleTerminates == InRefLoop ~> (diff_pc = "idle")

\* C38 as amended: the call returns once the REF has logged at least as
\* many commit events as the DUT or has stopped, and it returns from the
\* loop only then; the loop has no bound of its own.
C38_ReturnsWhenRefCatchesUp ==
    /\ (InRefLoop /\ (RefHasEnough \/ RefStopped)) ~> (diff_pc = "idle")
    /\ [][(InRefLoop /\ diff_pc' = "idle")
             => (RefHasEnough \/ RefStopped)]_vars

\* a call returned after the REF was stepped three times for one commit
\* event of the DUT, without stopping
C38_Witness ==
    /\ diff_pc = "idle"
    /\ stepping.dut = 1 /\ stepping.ref = MaxRefSteps
    /\ ~child_stopped.ref
    /\ ~stepping.short

\* C36: when DUT and REF are two instances of the same CPU implementation
\* running the same program from the same initial state, each with its own
\* agent on one shared dispatcher, the tester never latches a diff error,
\* for every program length and every pattern of MMIO accesses and
\* register writes.
C36_EqualCpusNeverDiffer == ~difftest_error

\* the two CPUs are of a class that closes its agent's cycle after every
\* instruction
ClosingPair == cpu_kind \in PairImpls /\ closes_cycle(cpu_kind)

\* the latest request of an agent named a request number that the ring of
\* the dispatcher had dropped: the DUT was more than BufferSize requests
\* ahead of the REF
RequestUnderflowed ==
    lastRead.kind = "underflow" \/ lastWrite.kind = "underflow"

\* C36 as amended: with two CPUs of a class that closes its agent's cycle
\* after every instruction, the tester latches a diff error only in a
\* cycle in which a request of the REF named a request number the
\* dispatcher's ring had already dropped.
C36_EqualCpusDifferOnUnderflow ==
    [][(ClosingPair /\ ~difftest_error /\ difftest_error')
           => RequestUnderflowed]_vars

\* both CPUs read the console twice, the REF was answered from the ring
\* both times, and the tester compared without an error
C36_Witness ==
    /\ ClosingPair
    /\ diff_pc = "idle" /\ stepping.ran
    /\ read_count[1] = 2 /\ read_count[2] = 2
    /\ lastRead.kind = "cached"
    /\ ~difftest_error

\* C39: a CPU closes its MMIO agent's cycle (next_cycle) once per executed
\* instruction, so two loads of the same MMIO address executed by two
\* different instructions use two different request numbers and the second
\* is not answered with the first one's result: between two instructions
\* no request of an agent is left in its cycle, and no load is answered by
\* the scan of the agent's cycle.
C39_CycleClosedPerInstruction ==
    cpu_kind \in PairImpls =>
        /\ \A a \in Agents :
              /\ old_read_count[a] = read_count[a]
              /\ old_write_count[a] = write_count[a]
        /\ lastRead.kind # "incycle"

=============================================================================
